---- MODULE Spec2Model ----
(***************************************************************************)
(* Model of ModulesLoader (src/pyapp/gscx_gui/modules_loader.py): the      *)
(* virtual flash controller, the ROS slot selection, the boot chain        *)
(* orchestrator and the bundle loader, as a state machine over the         *)
(* loader's fields and the part of the file system it owns.                *)
(*                                                                         *)
(* Every method is an operator from a loader state S (a record of the      *)
(* fields and the disk) to a record [s, r, info]: the state after the      *)
(* call, the value returned ("raise" when an exception leaves the method)  *)
(* and the layout dictionary for the methods that return one.  An action   *)
(* is one whole call of a public method.                                   *)
(***************************************************************************)
EXTENDS Integers, Sequences, FiniteSets, TLC

VARIABLES
    loaded,       \* self.loaded: sequence of [name, exports]
    temp_dir,     \* self._temp_dir: 0 (None) or the id of a temporary directory
    vflash_dir,   \* self._vflash_dir: 0 (unset) or the id of the directory holding vflash/
    vflash_info,  \* self._vflash_info: NoInfo (None) or the layout dictionary
    active_ros,   \* self._active_ros: "none" (unset or None), "ros0" or "ros1"
    tmpfs,        \* the temporary directories on disk and the files staged in them
    vf,           \* the directory tree at the path _vflash_dir on disk
    environ,      \* os.environ['GSCX_RECOVERY_PUP']: Unset or the path [dir, name]
    vusb_dir,     \* self._vusb_dir: 0 (None) or the id of a temporary directory
    last_usb_dir, \* self.last_usb_dir: NoDir (None), UsbDir or the id of a temporary directory
    usb,          \* the directory at the path the caller passes as usb_dir
    pc,           \* what each thread of the shell is doing with the loader
    log_target,   \* _LogBridge.target: the instance whose on_log it is, or "none"
    cancel,       \* ScriptingEngine._cancel
    cwd,          \* os.getcwd(): the working directory of the process
    runs,         \* the calls of ScriptingEngine.run: where each one is and its cwd_backup
    ret           \* the last call: its name, argument, result and what it invoked

vars ==
    <<loaded, temp_dir, vflash_dir, vflash_info, active_ros, tmpfs, vf,
      environ, vusb_dir, last_usb_dir, usb, pc, log_target, cancel, cwd, runs, ret>>

\* the log bridge, the scripting engine and the working directory
scripting == <<log_target, cancel, cwd, runs>>

----------------------------------------------------------------------------
(* Bounds of the model *)

\* names tempfile.mkdtemp can hand out (at most two directories are alive at once)
NumTempDirs == 2
\* cap on len(self.loaded)
MaxLoaded == 4

(* Program constants *)

\* len("stub")
StubSize == 4
\* len("GSCX PS3 Bootloader (virtual)\n")
VersionSize == 30
\* len(b"\x00" * 1024)
RegistrySize == 1024
\* size of a file written into a partition by the emulated system
UserFileSize == 1

TempIds == 1..NumTempDirs

partitions == <<"dev_flash", "dev_flash2", "dev_flash3">>
ros_slots == <<"ros0", "ros1">>
extra_dirs == <<"bootloader", "registry">>

Range(q) == {q[i] : i \in DOMAIN q}

SubDirs == Range(partitions) \cup Range(ros_slots) \cup Range(extra_dirs)

\* str.upper() on the slot names
upper(s) ==
    CASE s = "ros0" -> "ROS0"
      [] s = "ros1" -> "ROS1"
      [] OTHER -> s

UpperAll(q) == [i \in DOMAIN q |-> upper(q[i])]

----------------------------------------------------------------------------
(* The file system *)

NoSub == [exists |-> FALSE, files |-> {}]
EmptySub == [exists |-> TRUE, files |-> {}]
NoVf == [exists |-> FALSE, dirs |-> [d \in SubDirs |-> NoSub]]
\* the bytes of "/" and "." in a path
Slash == 47
Dot == 46

\* a temporary directory: its regular files [name, data] and its directories,
\* each under its path below the directory
NoTmp == [exists |-> FALSE, files |-> {}, dirs |-> {}]
EmptyTmp == [exists |-> TRUE, files |-> {}, dirs |-> {}]

NoInfo == [path |-> 0, partitions |-> <<>>, ros_slots |-> <<>>]

\* a directory named by a path: the one the caller passes as usb_dir, no
\* directory at all, or a temporary directory under its id
UsbDir == 0
NoDir == 0 - 1

\* 'GSCX_RECOVERY_PUP' not in os.environ
Unset == [dir |-> NoDir, name |-> <<>>]

\* open(path, "w").write(...): the file is created or replaced
WriteFile(files, name, size) ==
    {f \in files : f.name # name} \cup {[name |-> name, size |-> size]}

\* os.path.isdir(os.path.join(base, d)) for a subdirectory name of the layout
IsSubDir(S, d) == S.vf.exists /\ S.vf.dirs[d].exists

\* os.path.exists(p) and os.path.getsize(p) > 0 for p = base/slot/name
NonEmptyFile(S, slot, name) ==
    /\ IsSubDir(S, slot)
    /\ \E f \in S.vf.dirs[slot].files : f.name = name /\ f.size > 0

\* os.makedirs(os.path.join(base_dir, p), exist_ok=True)
MakeSub(sub) == IF sub.exists THEN sub ELSE EmptySub

\* shutil.rmtree(<temporary directory id>, ignore_errors=True): the staged
\* files go, and so does the vflash tree when it lives in that directory
rmtree(S, id) ==
    [S EXCEPT !.tmpfs[id] = NoTmp,
              !.vf = IF S.vflash_dir = id THEN NoVf ELSE @]

\* tempfile.mkdtemp(): a new directory under a name not on disk
mkdtemp(S) ==
    LET free(i) == ~S.tmpfs[i].exists /\ i # S.vflash_dir
        id == CHOOSE i \in TempIds : free(i) /\ \A j \in TempIds : free(j) => i <= j
    IN  [s |-> [S EXCEPT !.tmpfs[id] = EmptyTmp], id |-> id]

Log(S) == [S EXCEPT !.logged = TRUE]

\* a call made by the method under way and what came of it
Call(S, entry, out) == [S EXCEPT !.calls = Append(@, [entry |-> entry, out |-> out])]

Out(S, r, info) == [s |-> S, r |-> r, info |-> info]

\* F applied to the value of v, which is computed once: the result of a call
\* is bound to a name before the code goes on
Bind(v, F(_)) == CHOOSE r \in {F(x) : x \in {v}} : TRUE

----------------------------------------------------------------------------
(* Virtual flash controller *)

IO == {"ok", "fail"}

SeedFiles(dirs) ==
    [d \in SubDirs |->
        LET sub == MakeSub(dirs[d])
        IN  CASE d = "bootloader" ->
                   [sub EXCEPT !.files = WriteFile(@, "version.txt", VersionSize)]
              [] d \in Range(ros_slots) ->
                   [sub EXCEPT !.files =
                       WriteFile(WriteFile(@, "lv0.self", StubSize), "appldr.self", StubSize)]
              [] d = "registry" ->
                   [sub EXCEPT !.files = WriteFile(@, "xRegistry.sys", RegistrySize)]
              [] OTHER -> sub]

\* lines 580-585: base_dir, made under self._temp_dir when not yet chosen
base_dir(S) ==
    IF S.vflash_dir # 0 THEN S
    ELSE IF S.temp_dir # 0 THEN [S EXCEPT !.vflash_dir = S.temp_dir]
    ELSE Bind(mkdtemp(S), LAMBDA mk : [mk.s EXCEPT !.temp_dir = mk.id, !.vflash_dir = mk.id])

\* io = "fail": os.makedirs(base_dir) raises OSError
initialize_virtual_flash(S, io) ==
    Bind(base_dir(S), LAMBDA S0 :
        IF io = "fail" THEN Out(Log(S0), "raise", NoInfo)
        ELSE LET info == [path |-> S0.vflash_dir,
                          partitions |-> partitions,
                          ros_slots |-> UpperAll(ros_slots)]
             IN  Out(Log([S0 EXCEPT
                            !.tmpfs[S0.vflash_dir] = IF @.exists THEN @ ELSE EmptyTmp,
                            !.vf = [exists |-> TRUE, dirs |-> SeedFiles(S0.vf.dirs)],
                            !.vflash_info = info]),
                     "info", info))

\* get_vflash_info that reports the partitions it finds on disk
get_vflash_info_rescan(S, io) ==
    IF S.vflash_info = NoInfo
    THEN initialize_virtual_flash(S, io)
    ELSE Out(S, "info",
             [S.vflash_info EXCEPT !.partitions = SelectSeq(@, LAMBDA q : IsSubDir(S, q))])

get_vflash_info(S, io) ==
    IF S.vflash_info = NoInfo
    THEN initialize_virtual_flash(S, io)
    ELSE Out(S, "info", S.vflash_info)

mount_virtual_flash(S, io) ==
    IF S.vflash_info = NoInfo
    THEN Bind(initialize_virtual_flash(S, io), LAMBDA o :
             IF o.r = "raise" THEN Out(Log(o.s), "false", NoInfo)
             ELSE Out(Log(o.s), "true", NoInfo))
    ELSE Out(Log(S), "true", NoInfo)

\* the loop over os.listdir(base) that removes every entry under base
DeleteAllUnder(S) ==
    [S EXCEPT !.vf.dirs = [d \in SubDirs |-> NoSub],
              !.deleted = @ + Cardinality({d \in SubDirs : S.vf.dirs[d].exists})]

\* DeleteEntries that removes the directory with its entries
DeleteEntries_rmdir(S, d) ==
    [S EXCEPT !.vf.dirs[d] = NoSub,
              !.deleted = @ + Cardinality(S.vf.dirs[d].files)]

\* the loop over os.listdir(target) for a subdirectory of the layout
DeleteEntries(S, d) ==
    [S EXCEPT !.vf.dirs[d].files = {},
              !.deleted = @ + Cardinality(S.vf.dirs[d].files)]

\* os.listdir of a temporary directory, the vflash directory aside
TopEntries(T) ==
    {n \in {f.name : f \in T.files} \cup T.dirs : \A i \in DOMAIN n : n[i] # Slash}

\* the same loop when target is the directory holding base
DeleteHostEntries(S) ==
    [S EXCEPT !.tmpfs[S.vflash_dir].files = {},
              !.tmpfs[S.vflash_dir].dirs = {},
              !.vf = NoVf,
              !.deleted = @ + Cardinality(TopEntries(S.tmpfs[S.vflash_dir]))
                            + (IF S.vf.exists THEN 1 ELSE 0)]

\* the loop of format_virtual_flash over os.listdir(base) when the entries of
\* `stuck` cannot be removed: rmtree(ignore_errors=True) and the except clause
\* pass over them and the loop goes on
DeleteAllBut(S, stuck) ==
    [S EXCEPT !.vf.dirs = [d \in SubDirs |-> IF d \in stuck THEN @[d] ELSE NoSub],
              !.deleted = @ + Cardinality({d \in SubDirs \ stuck : S.vf.dirs[d].exists})]

\* format_virtual_flash with the entries under base that resist deletion
format_virtual_flash_with(S, io, stuck) ==
    Bind(get_vflash_info(S, io), LAMBDA g :
        IF g.r = "raise" THEN g
        ELSE IF ~g.s.vf.exists
        THEN \* os.listdir(base) raises FileNotFoundError
             Out(Log(g.s), "raise", NoInfo)
        ELSE Bind(initialize_virtual_flash(
                      [DeleteAllBut(g.s, stuck) EXCEPT !.vflash_info = NoInfo], io), LAMBDA i :
                 IF i.r = "raise" THEN Out(Log(i.s), "raise", NoInfo)
                 ELSE Bind(mount_virtual_flash(i.s, io), LAMBDA m :
                          Out(Log(m.s), "info", i.info))))

\* format_virtual_flash when every entry can be removed
format_virtual_flash(S, io) == format_virtual_flash_with(S, io, {})

\* partition names a subdirectory of the layout, base itself (""), the
\* directory that holds base (".."), or nothing that exists
clean_vflash_partition(S, partition, io) ==
    Bind(get_vflash_info(S, io), LAMBDA g :
        IF g.r = "raise" THEN g
        ELSE IF partition \in SubDirs
        THEN IF ~IsSubDir(g.s, partition) THEN Out(Log(g.s), "false", NoInfo)
             ELSE Out(Log(DeleteEntries(g.s, partition)), "true", NoInfo)
        ELSE IF partition = ""
        THEN IF ~g.s.vf.exists THEN Out(Log(g.s), "false", NoInfo)
             ELSE Out(Log(DeleteAllUnder(g.s)), "true", NoInfo)
        ELSE IF partition = ".."
        THEN IF ~g.s.tmpfs[g.s.vflash_dir].exists THEN Out(Log(g.s), "false", NoInfo)
             ELSE Out(Log(DeleteHostEntries(g.s)), "true", NoInfo)
        ELSE Out(Log(g.s), "false", NoInfo))

\* CleanEach that gives up at the first partition that could not be cleaned
RECURSIVE CleanEach_stop(_, _, _, _)
CleanEach_stop(S, names, ok, io) ==
    IF names = <<>> THEN Out(S, IF ok THEN "true" ELSE "false", NoInfo)
    ELSE Bind(clean_vflash_partition(S, Head(names), io), LAMBDA c :
             IF c.r = "raise" THEN c
             ELSE IF c.r # "true" THEN Out(Call(c.s, Head(names), c.r), "false", NoInfo)
             ELSE CleanEach_stop(Call(c.s, Head(names), c.r), Tail(names), ok, io))

\* the loop of clean_all_vflash_partitions; each call and what it returned is
\* noted in calls
RECURSIVE CleanEach(_, _, _, _)
CleanEach(S, names, ok, io) ==
    IF names = <<>> THEN Out(S, IF ok THEN "true" ELSE "false", NoInfo)
    ELSE Bind(clean_vflash_partition(S, Head(names), io), LAMBDA c :
             IF c.r = "raise" THEN c
             ELSE CleanEach(Call(c.s, Head(names), c.r), Tail(names),
                            (c.r = "true") /\ ok, io))

clean_all_vflash_partitions(S, io) ==
    Bind(get_vflash_info(S, io), LAMBDA g :
        IF g.r = "raise" THEN g
        ELSE CleanEach(g.s, g.info.partitions, TRUE, io))

----------------------------------------------------------------------------
(* ROS slot selection and LV0/Appldr verification *)

\* Candidates that ignores the preference
Candidates_fixed(preferred) == ros_slots

\* the values callers pass as `preferred`; "none" is None
Candidates(preferred) ==
    IF preferred \in Range(ros_slots)
    THEN <<preferred>> \o SelectSeq(ros_slots, LAMBDA c : c # preferred)
    ELSE ros_slots

\* _valid(slot) of select_ros_slot
ValidSlot(S, slot) == NonEmptyFile(S, slot, "lv0.self")

RECURSIVE FirstValid(_, _)
FirstValid(S, cands) ==
    IF cands = <<>> THEN "none"
    ELSE IF ValidSlot(S, Head(cands)) THEN Head(cands)
    ELSE FirstValid(S, Tail(cands))

\* select_ros_slot that leaves _active_ros as it was when no candidate is valid
select_ros_slot_keep(S, preferred, io) ==
    Bind(get_vflash_info(S, io), LAMBDA g :
        IF g.r = "raise"
        THEN Out(Log(g.s), "none", NoInfo)
        ELSE Bind(FirstValid(g.s, Candidates(preferred)), LAMBDA slot :
                 IF slot # "none"
                 THEN Out([Log(g.s) EXCEPT !.active_ros = slot], slot, NoInfo)
                 ELSE Out(g.s, "none", NoInfo)))

select_ros_slot(S, preferred, io) ==
    Bind(get_vflash_info(S, io), LAMBDA g :
        IF g.r = "raise"
        THEN Out([Log(g.s) EXCEPT !.active_ros = "none"], "none", NoInfo)
        ELSE Bind(FirstValid(g.s, Candidates(preferred)), LAMBDA slot :
                 IF slot # "none"
                 THEN Out([Log(g.s) EXCEPT !.active_ros = slot], slot, NoInfo)
                 ELSE Out([g.s EXCEPT !.active_ros = "none"], "none", NoInfo)))

\* verify_lv0_and_appldr that does not look at appldr.self
verify_lv0_only(S, io) ==
    Bind(get_vflash_info(S, io), LAMBDA g :
        IF g.r = "raise" THEN Out(Log(g.s), "false", NoInfo)
        ELSE IF g.s.active_ros = "none" THEN Out(g.s, "false", NoInfo)
        ELSE IF NonEmptyFile(g.s, g.s.active_ros, "lv0.self") THEN Out(g.s, "true", NoInfo)
        ELSE Out(Log(g.s), "false", NoInfo))

verify_lv0_and_appldr(S, io) ==
    Bind(get_vflash_info(S, io), LAMBDA g :
        IF g.r = "raise" THEN Out(Log(g.s), "false", NoInfo)
        ELSE IF g.s.active_ros = "none" THEN Out(g.s, "false", NoInfo)
        ELSE IF /\ NonEmptyFile(g.s, g.s.active_ros, "lv0.self")
                /\ NonEmptyFile(g.s, g.s.active_ros, "appldr.self")
        THEN Out(g.s, "true", NoInfo)
        ELSE Out(Log(g.s), "false", NoInfo))

\* validation_steps of validate_boot_chain: every step is the literal True
validation_steps == <<TRUE, TRUE, TRUE, TRUE, TRUE, TRUE>>

\* the fallback of validate_boot_chain after `selected` failed verification
validate_fallback(S, selected, all_valid, io) ==
    Bind(select_ros_slot(Log(S), IF selected = "ros0" THEN "ros1" ELSE "ros0", io),
         LAMBDA alt :
        IF alt.r = "none" THEN Out(Log(alt.s), "false", NoInfo)
        ELSE Bind(verify_lv0_and_appldr(alt.s, io), LAMBDA v2 :
                 IF v2.r = "true"
                 THEN Out(Log(v2.s), IF all_valid THEN "true" ELSE "false", NoInfo)
                 ELSE Out(Log(v2.s), "false", NoInfo)))

validate_boot_chain(S, io) ==
    LET all_valid == \A i \in DOMAIN validation_steps : validation_steps[i]
    IN  Bind(select_ros_slot(Log(S), "none", io), LAMBDA sel :
            IF sel.r = "none"
            THEN Out(Log(sel.s), "false", NoInfo)
            ELSE Bind(verify_lv0_and_appldr(Log(sel.s), io), LAMBDA v :
                     IF v.r = "true"
                     THEN Out(Log(v.s), IF all_valid THEN "true" ELSE "false", NoInfo)
                     ELSE validate_fallback(v.s, sel.r, all_valid, io)))

----------------------------------------------------------------------------
(* Bundle container and native modules *)

MODULES ==
    <<"gscx_cpu_cell", "gscx_gpu_rsx", "gscx_recovery",
      "gscx_bootloader", "gscx_syscon", "gscx_hypervisor">>

\* m + ".dll"
DllName(m) ==
    CASE m = "gscx_cpu_cell" -> "gscx_cpu_cell.dll"
      [] m = "gscx_gpu_rsx" -> "gscx_gpu_rsx.dll"
      [] m = "gscx_recovery" -> "gscx_recovery.dll"
      [] m = "gscx_bootloader" -> "gscx_bootloader.dll"
      [] m = "gscx_syscon" -> "gscx_syscon.dll"
      [] m = "gscx_hypervisor" -> "gscx_hypervisor.dll"

dll_names == [i \in DOMAIN MODULES |-> DllName(MODULES[i])]

\* the UTF-8 bytes of a file name of the catalog
NameBytes(dll) ==
    CASE dll = "gscx_cpu_cell.dll" ->
           <<103, 115, 99, 120, 95, 99, 112, 117, 95, 99, 101, 108, 108, 46, 100, 108, 108>>
      [] dll = "gscx_gpu_rsx.dll" ->
           <<103, 115, 99, 120, 95, 103, 112, 117, 95, 114, 115, 120, 46, 100, 108, 108>>
      [] dll = "gscx_recovery.dll" ->
           <<103, 115, 99, 120, 95, 114, 101, 99, 111, 118, 101, 114, 121, 46, 100, 108, 108>>
      [] dll = "gscx_bootloader.dll" ->
           <<103, 115, 99, 120, 95, 98, 111, 111, 116, 108, 111, 97, 100, 101, 114, 46, 100, 108, 108>>
      [] dll = "gscx_syscon.dll" ->
           <<103, 115, 99, 120, 95, 115, 121, 115, 99, 111, 110, 46, 100, 108, 108>>
      [] dll = "gscx_hypervisor.dll" ->
           <<103, 115, 99, 120, 95, 104, 121, 112, 101, 114, 118, 105, 115, 111, 114, 46, 100, 108, 108>>

\* name.startswith(prefix) for a recorded name and a name of the catalog (no
\* catalog name is a prefix of another)
StartsWith(name, prefix) == name = DllName(prefix)

\* 0x47534352
Magic == 1196639058

Min(a, b) == IF a < b THEN a ELSE b

\* data[a:b] of Python: clamped to the buffer, never an error
Slice(data, a, b) == SubSeq(data, a + 1, Min(b, Len(data)))

\* struct.unpack_from('<H', data, off) and ('<I', data, off), for off + width <= len(data)
LE16(data, off) == data[off + 1] + 256 * data[off + 2]
LE32(data, off) ==
    data[off + 1] + 256 * data[off + 2] + 65536 * data[off + 3] + 16777216 * data[off + 4]

\* bytes.decode('utf-8') succeeds: the bytes are well-formed UTF-8
RECURSIVE Utf8Valid(_)
Utf8Valid(b) ==
    IF b = <<>> THEN TRUE
    ELSE LET c == Head(b)
             n == IF c < 128 THEN 1
                  ELSE IF c >= 194 /\ c <= 223 THEN 2
                  ELSE IF c >= 224 /\ c <= 239 THEN 3
                  ELSE IF c >= 240 /\ c <= 244 THEN 4
                  ELSE 0
             cont(i) == b[i] >= 128 /\ b[i] <= 191
         IN  /\ n > 0
             /\ Len(b) >= n
             /\ \A i \in 2..n : cont(i)
             /\ (c = 224 => b[2] >= 160)
             /\ (c = 237 => b[2] <= 159)
             /\ (c = 240 => b[2] >= 144)
             /\ (c = 244 => b[2] <= 143)
             /\ Utf8Valid(SubSeq(b, n + 1, Len(b)))

\* ParseEntries that takes the entries read so far when the buffer runs out
RECURSIVE ParseEntries_lenient(_, _, _, _)
ParseEntries_lenient(data, off, count, entries) ==
    IF count = 0 THEN [ok |-> TRUE, entries |-> entries]
    ELSE IF off + 4 > Len(data) THEN [ok |-> TRUE, entries |-> entries]
    ELSE LET type_ == LE16(data, off)
             name_len == LE16(data, off + 2)
             name == Slice(data, off + 4, off + 4 + name_len)
         IN  Bind(off + 4 + name_len, LAMBDA off2 :
                 IF ~Utf8Valid(name) \/ off2 + 8 > Len(data)
                 THEN [ok |-> TRUE, entries |-> entries]
                 ELSE Bind(Append(entries, [type_ |-> type_, name |-> name,
                                            payload_off |-> LE32(data, off2),
                                            size |-> LE32(data, off2 + 4)]),
                           LAMBDA found :
                               ParseEntries_lenient(data, off2 + 8, count - 1, found)))

\* the entry table loop of load_from_gscore; ok = FALSE when struct.unpack_from
\* or decode raises
RECURSIVE ParseEntries(_, _, _, _)
ParseEntries(data, off, count, entries) ==
    IF count = 0 THEN [ok |-> TRUE, entries |-> entries]
    ELSE IF off + 4 > Len(data) THEN [ok |-> FALSE, entries |-> <<>>]
    ELSE LET type_ == LE16(data, off)
             name_len == LE16(data, off + 2)
             name == Slice(data, off + 4, off + 4 + name_len)
         IN  Bind(off + 4 + name_len, LAMBDA off2 :
                 IF ~Utf8Valid(name) \/ off2 + 8 > Len(data)
                 THEN [ok |-> FALSE, entries |-> <<>>]
                 ELSE Bind(Append(entries, [type_ |-> type_, name |-> name,
                                            payload_off |-> LE32(data, off2),
                                            size |-> LE32(data, off2 + 4)]),
                           LAMBDA found : ParseEntries(data, off2 + 8, count - 1, found)))

\* name.split('/')
RECURSIVE Split(_)
Split(name) ==
    IF \A i \in DOMAIN name : name[i] # Slash THEN <<name>>
    ELSE LET k == CHOOSE i \in DOMAIN name :
                      name[i] = Slash /\ \A j \in 1..(i - 1) : name[j] # Slash
         IN  <<SubSeq(name, 1, k - 1)>> \o Split(SubSeq(name, k + 1, Len(name)))

\* the steps the file system takes to resolve a relative path: an empty
\* component and "." are no step (names with ".." are not drawn)
Steps(name) == SelectSeq(Split(name), LAMBDA c : c # <<>> /\ c # <<Dot>>)

RECURSIVE Join(_)
Join(comps) ==
    IF comps = <<>> THEN <<>>
    ELSE IF Len(comps) = 1 THEN comps[1]
    ELSE comps[1] \o <<Slash>> \o Join(Tail(comps))

\* os.path.dirname(name)
dirname(name) ==
    LET cut == {i \in DOMAIN name : name[i] = Slash}
    IN  IF cut = {} THEN <<>>
        ELSE SubSeq(name, 1, (CHOOSE i \in cut : \A j \in cut : j <= i) - 1)

\* the directory at `comps` and every directory above it, below the staging directory
Ancestors(comps) == {Join(SubSeq(comps, 1, k)) : k \in 1..Len(comps)}

\* open(path, 'wb').write(blob): the file is created or replaced
WriteBytes(files, name, blob) ==
    {f \in files : f.name # name} \cup {[name |-> name, data |-> blob]}

\* the body of the extraction loop for one entry, T the staging directory:
\* os.makedirs(dirname) raises when a file is in the way, open() raises when
\* the path names a directory; a rooted name is joined to itself and written
\* outside the staging directory
StageEntry(T, name, blob) ==
    IF name # <<>> /\ name[1] = Slash THEN T
    ELSE LET parent == Ancestors(Steps(dirname(name)))
             target == Join(Steps(name))
         IN  IF \E f \in T.files : f.name \in parent THEN T
             ELSE Bind([T EXCEPT !.dirs = @ \cup parent], LAMBDA T1 :
                      IF target = <<>> \/ target \in T1.dirs THEN T1
                      ELSE [T1 EXCEPT !.files = WriteBytes(@, target, blob)])

\* ExtractEntries that gives up at the first entry it could not write
RECURSIVE ExtractEntries_abort(_, _, _)
ExtractEntries_abort(data, entries, T) ==
    IF entries = <<>> THEN T
    ELSE LET e == Head(entries)
             blob == Slice(data, e.payload_off, e.payload_off + e.size)
         IN  Bind(StageEntry(T, e.name, blob),
                  LAMBDA staged :
                      IF staged.files = T.files THEN staged
                      ELSE ExtractEntries_abort(data, Tail(entries), staged))

\* ExtractEntries that takes the payload size for the end of the payload
RECURSIVE ExtractEntries_endsize(_, _, _)
ExtractEntries_endsize(data, entries, T) ==
    IF entries = <<>> THEN T
    ELSE LET e == Head(entries)
             blob == Slice(data, e.payload_off, e.size)
         IN  Bind(StageEntry(T, e.name, blob),
                  LAMBDA staged : ExtractEntries_endsize(data, Tail(entries), staged))

RECURSIVE ExtractEntries(_, _, _)
ExtractEntries(data, entries, T) ==
    IF entries = <<>> THEN T
    ELSE LET e == Head(entries)
             blob == Slice(data, e.payload_off, e.payload_off + e.size)
         IN  Bind(StageEntry(T, e.name, blob),
                  LAMBDA staged : ExtractEntries(data, Tail(entries), staged))

\* What ctypes.WinDLL makes of a file: a library when the file starts with the
\* image signature "MZ"; its third byte tells which entry points it exports
\* and its fourth what its GSCX_Initialize does
EntryKinds == <<"GetModuleInfo", "Initialize", "Shutdown", "Stage">>

DllLoads(data) == Len(data) >= 2 /\ data[1] = 77 /\ data[2] = 90

DllExports(data) ==
    LET mask == IF Len(data) >= 3 THEN data[3] ELSE 0
        bit(i) == (mask \div (2 ^ (i - 1))) % 2 = 1
    IN  {EntryKinds[i] : i \in {j \in DOMAIN EntryKinds : bit(j)}}

DllInit(data) ==
    IF Len(data) < 4 THEN "true"
    ELSE CASE data[4] = 0 -> "false"
           [] data[4] = 2 -> "raise"
           [] OTHER -> "true"

\* what the GSCX_Shutdown of a library does, told by the fifth byte of its file
DllShutdown(data) == IF Len(data) >= 5 /\ data[5] = 2 THEN "raise" ELSE "none"

\* the body of the inner loop of _load_from_dirs for one catalog name
LoadOne(S, dir, dll) ==
    LET hit == {f \in S.tmpfs[dir].files : f.name = NameBytes(dll)}
        file == CHOOSE f \in hit : TRUE
    IN  IF hit = {} THEN S
        ELSE IF ~DllLoads(file.data) THEN Log(S)
        ELSE LET exports == DllExports(file.data)
                 rec == [name |-> dll, exports |-> exports, lib |-> file.data]
                 S1 == Log(S)
             IN  IF "Initialize" \notin exports
                 THEN [S1 EXCEPT !.loaded = Append(@, rec)]
                 ELSE LET S2 == Call(S1, "GSCX_Initialize", DllInit(file.data))
                      IN  IF DllInit(file.data) = "raise"
                          THEN \* ctypes turns the native fault into OSError
                               S2
                          ELSE [S2 EXCEPT !.loaded = Append(@, rec)]

\* LoadEach that ends the batch at the first file that could not be loaded
RECURSIVE LoadEach_abort(_, _, _)
LoadEach_abort(S, dir, names) ==
    IF names = <<>> THEN S
    ELSE Bind(LoadOne(S, dir, Head(names)), LAMBDA S1 :
             IF /\ \E f \in S.tmpfs[dir].files : f.name = NameBytes(Head(names))
                /\ S1.loaded = S.loaded
             THEN S1
             ELSE LoadEach_abort(S1, dir, Tail(names)))

RECURSIVE LoadEach(_, _, _)
LoadEach(S, dir, names) ==
    IF names = <<>> THEN S
    ELSE Bind(LoadOne(S, dir, Head(names)), LAMBDA S1 : LoadEach(S1, dir, Tail(names)))

\* _load_from_dirs([dir])
load_from_dir(S, dir) == LoadEach(S, dir, dll_names)

\* load_from_gscore that extracts into the staging directory it already has
load_from_gscore_reuse(S, bundle) ==
    LET data == bundle.data
    IN
    IF ~bundle.readable THEN Out(Log(S), "none", NoInfo)
    ELSE IF Len(data) < 8 THEN Out(Log(S), "none", NoInfo)
    ELSE IF LE32(data, 0) # Magic THEN Out(Log(S), "none", NoInfo)
    ELSE Bind(ParseEntries(data, 8, LE16(data, 6), <<>>), LAMBDA table :
             IF ~table.ok THEN Out(Log(S), "none", NoInfo)
             ELSE Bind(IF S.temp_dir # 0 THEN [s |-> S, id |-> S.temp_dir] ELSE mkdtemp(S),
                       LAMBDA mk :
                      Bind([mk.s EXCEPT
                              !.temp_dir = mk.id,
                              !.tmpfs[mk.id] = ExtractEntries(data, table.entries, @),
                              !.logged = @ \/ table.entries # <<>>],
                           LAMBDA S2 : Out(load_from_dir(S2, mk.id), "none", NoInfo))))

\* load_from_gscore that discards the staging directory before it looks at
\* the magic
load_from_gscore_late_magic(S, bundle) ==
    LET data == bundle.data
    IN
    IF ~bundle.readable THEN Out(Log(S), "none", NoInfo)
    ELSE IF Len(data) < 8 THEN Out(Log(S), "none", NoInfo)
    ELSE Bind(IF S.temp_dir # 0 THEN [rmtree(S, S.temp_dir) EXCEPT !.temp_dir = 0] ELSE S,
              LAMBDA S0 :
        IF LE32(data, 0) # Magic THEN Out(Log(S0), "none", NoInfo)
        ELSE Bind(ParseEntries(data, 8, LE16(data, 6), <<>>), LAMBDA table :
             IF ~table.ok THEN Out(Log(S0), "none", NoInfo)
             ELSE Bind(mkdtemp(S0), LAMBDA mk :
                      Bind([mk.s EXCEPT
                              !.temp_dir = mk.id,
                              !.tmpfs[mk.id] = ExtractEntries(data, table.entries, @),
                              !.logged = @ \/ table.entries # <<>>],
                           LAMBDA S2 : Out(load_from_dir(S2, mk.id), "none", NoInfo)))))

\* bundle = [readable, data]: whether open() and read() succeed, and the bytes
load_from_gscore(S, bundle) ==
    LET data == bundle.data
    IN
    IF ~bundle.readable THEN Out(Log(S), "none", NoInfo)
    ELSE IF Len(data) < 8 THEN Out(Log(S), "none", NoInfo)
    ELSE IF LE32(data, 0) # Magic THEN Out(Log(S), "none", NoInfo)
    ELSE Bind(ParseEntries(data, 8, LE16(data, 6), <<>>), LAMBDA table :
             IF ~table.ok THEN Out(Log(S), "none", NoInfo)
             ELSE Bind(mkdtemp(IF S.temp_dir # 0 THEN rmtree(S, S.temp_dir) ELSE S),
                       LAMBDA mk :
                      Bind([mk.s EXCEPT
                              !.temp_dir = mk.id,
                              !.tmpfs[mk.id] = ExtractEntries(data, table.entries, @),
                              !.logged = @ \/ table.entries # <<>>],
                           LAMBDA S2 : Out(load_from_dir(S2, mk.id), "none", NoInfo))))

\* ShutdownEach that lets a raising GSCX_Shutdown end the loop
RECURSIVE ShutdownEach_stop(_, _)
ShutdownEach_stop(S, mods) ==
    IF mods = <<>> THEN S
    ELSE IF "Shutdown" \in Head(mods).exports /\ DllShutdown(Head(mods).lib) = "raise"
    THEN Log(Call(S, "GSCX_Shutdown", "raise"))
    ELSE Bind(Log(IF "Shutdown" \in Head(mods).exports
                  THEN Call(S, "GSCX_Shutdown", DllShutdown(Head(mods).lib)) ELSE S),
              LAMBDA S1 : ShutdownEach_stop(S1, Tail(mods)))

\* the loop of unload_all: getattr(lib, "GSCX_Shutdown") and the call, either
\* of which may raise, then the log line
RECURSIVE ShutdownEach(_, _)
ShutdownEach(S, mods) ==
    IF mods = <<>> THEN S
    ELSE Bind(Log(IF "Shutdown" \in Head(mods).exports
                  THEN Call(S, "GSCX_Shutdown", DllShutdown(Head(mods).lib)) ELSE S),
              LAMBDA S1 : ShutdownEach(S1, Tail(mods)))

unload_all(S) ==
    Bind([ShutdownEach(S, S.loaded) EXCEPT !.loaded = <<>>], LAMBDA S1 :
        IF S1.temp_dir # 0
        THEN Out([rmtree(S1, S1.temp_dir) EXCEPT !.temp_dir = 0], "none", NoInfo)
        ELSE Out(S1, "none", NoInfo))

----------------------------------------------------------------------------
(* Boot chain orchestrator *)

\* what a native entry point does when called: returns true, returns false,
\* or faults (ctypes raises)
NativeOut == {"true", "false", "raise"}

\* the first record of self.loaded whose name starts with prefix, 0 if none
FirstLoaded(S, prefix) ==
    LET hits == {i \in DOMAIN S.loaded : StartsWith(S.loaded[i].name, prefix)}
    IN  IF hits = {} THEN 0 ELSE CHOOSE i \in hits : \A j \in hits : i <= j

\* native_stage that goes on to later modules, and succeeds when none is left,
\* if the module or its entry point is missing
native_stage_fallback(S, prefix, entry, out) ==
    LET i == FirstLoaded(Log(S), prefix)
    IN  IF i = 0 THEN Out(Log(S), "true", NoInfo)
        ELSE IF "Stage" \notin S.loaded[i].exports THEN Out(Log(S), "true", NoInfo)
        ELSE Out(Log(Call(S, entry, out)), IF out = "true" THEN "true" ELSE "false", NoInfo)

\* the common shape of boot_lv0_stage and boot_lv1_stage
native_stage(S, prefix, entry, out) ==
    LET i == FirstLoaded(Log(S), prefix)
    IN  IF i = 0 THEN Out(Log(S), "false", NoInfo)
        ELSE IF "Stage" \notin S.loaded[i].exports THEN Out(Log(S), "false", NoInfo)
        ELSE Out(Log(Call(S, entry, out)), IF out = "true" THEN "true" ELSE "false", NoInfo)

boot_lv0_stage(S, out) == native_stage(S, "gscx_bootloader", "GSCX_LV0_Entry", out)

boot_lv1_stage(S, out) == native_stage(S, "gscx_hypervisor", "GSCX_LV1_Entry", out)

\* boot_lv2_stage that is content with one of the two modules
boot_lv2_stage_either(S) ==
    LET cpu_loaded == \E i \in DOMAIN S.loaded : StartsWith(S.loaded[i].name, "gscx_cpu_cell")
        gpu_loaded == \E i \in DOMAIN S.loaded : StartsWith(S.loaded[i].name, "gscx_gpu_rsx")
    IN  Out(Log(S), IF cpu_loaded \/ gpu_loaded THEN "true" ELSE "false", NoInfo)

boot_lv2_stage(S) ==
    LET cpu_loaded == \E i \in DOMAIN S.loaded : StartsWith(S.loaded[i].name, "gscx_cpu_cell")
        gpu_loaded == \E i \in DOMAIN S.loaded : StartsWith(S.loaded[i].name, "gscx_gpu_rsx")
    IN  Out(Log(S), IF cpu_loaded /\ gpu_loaded THEN "true" ELSE "false", NoInfo)

\* initialize_syscon that takes the virtual SYSCON when the entry point is missing
initialize_syscon_fallback(S, out) ==
    LET i == FirstLoaded(S, "gscx_syscon")
    IN  IF i = 0 THEN Out(Log(S), "true", NoInfo)
        ELSE IF "Stage" \notin S.loaded[i].exports THEN Out(Log(S), "true", NoInfo)
        ELSE Out(Log(Call(S, "GSCX_SYSCON_Initialize", out)),
                 IF out = "true" THEN "true" ELSE "false", NoInfo)

initialize_syscon(S, out) ==
    LET i == FirstLoaded(S, "gscx_syscon")
    IN  IF i = 0 THEN Out(Log(S), "true", NoInfo)
        ELSE IF "Stage" \notin S.loaded[i].exports THEN Out(Log(S), "false", NoInfo)
        ELSE Out(Log(Call(S, "GSCX_SYSCON_Initialize", out)),
                 IF out = "true" THEN "true" ELSE "false", NoInfo)

\* the dictionary perform_hardware_detection returns is never empty
perform_hardware_detection(S) == Out(Log(S), "true", NoInfo)

\* the fixed order of the stages
StageOrder ==
    <<"HardwareDetect", "SysconInit", "BootChainValidate", "FlashMount", "LV0", "LV1", "LV2">>

Stage(o, name) ==
    Bind(o, LAMBDA x : [x EXCEPT !.s.stages = Append(@, [stage |-> name, ok |-> x.r = "true"])])

\* flash_stage that mounts what is recorded without initializing it again
flash_stage_mount_only(S, io) ==
    Bind(mount_virtual_flash(Log(S), io), LAMBDA m : Out(Log(m.s), m.r, NoInfo))

\* stage 3.5: initialize_virtual_flash() then mount_virtual_flash()
flash_stage(S, io) ==
    Bind(initialize_virtual_flash(S, io), LAMBDA i :
        IF i.r = "raise" THEN Out(Log(i.s), "false", NoInfo)
        ELSE Bind(mount_virtual_flash(Log(i.s), io), LAMBDA m :
                 Out(Log(m.s), m.r, NoInfo)))

\* the log line and `return False` after a stage that failed
Fail(o) == Out(Log(o.s), "false", NoInfo)

\* boot_levels without the early returns: every stage runs, the results are and-ed
boot_levels_nogate(S, out) ==
    Bind(Stage(boot_lv0_stage(S, out.lv0), "LV0"), LAMBDA l0 :
    Bind(Stage(boot_lv1_stage(l0.s, out.lv1), "LV1"), LAMBDA l1 :
    Bind(Stage(boot_lv2_stage(l1.s), "LV2"), LAMBDA l2 :
        Out(Log(l2.s),
            IF l0.r = "true" /\ l1.r = "true" /\ l2.r = "true" THEN "true" ELSE "false",
            NoInfo))))

\* boot_levels that forgets to test the result of the LV2 stage
boot_levels_ignore_lv2(S, out) ==
    Bind(Stage(boot_lv0_stage(S, out.lv0), "LV0"), LAMBDA l0 :
        IF l0.r # "true" THEN Fail(l0)
        ELSE Bind(Stage(boot_lv1_stage(l0.s, out.lv1), "LV1"), LAMBDA l1 :
            IF l1.r # "true" THEN Fail(l1)
            ELSE Bind(Stage(boot_lv2_stage(l1.s), "LV2"), LAMBDA l2 :
                Out(Log(l2.s), "true", NoInfo))))

\* part 4 of execute_full_boot_sequence: the stages LV0, LV1, LV2
boot_levels(S, out) ==
    Bind(Stage(boot_lv0_stage(S, out.lv0), "LV0"), LAMBDA l0 :
        IF l0.r # "true" THEN Fail(l0)
        ELSE Bind(Stage(boot_lv1_stage(l0.s, out.lv1), "LV1"), LAMBDA l1 :
            IF l1.r # "true" THEN Fail(l1)
            ELSE Bind(Stage(boot_lv2_stage(l1.s), "LV2"), LAMBDA l2 :
                IF l2.r # "true" THEN Fail(l2)
                ELSE Out(Log(l2.s), "true", NoInfo))))

\* out = [syscon, lv0, lv1]: what each native entry point does if it is called
execute_full_boot_sequence(S, io, out) ==
    Bind(Stage(perform_hardware_detection(Log(S)), "HardwareDetect"), LAMBDA hw :
        IF hw.r # "true" THEN Fail(hw)
        ELSE Bind(Stage(initialize_syscon(hw.s, out.syscon), "SysconInit"), LAMBDA sc :
            IF sc.r # "true" THEN Fail(sc)
            ELSE Bind(Stage(validate_boot_chain(sc.s, io), "BootChainValidate"), LAMBDA bc :
                IF bc.r # "true" THEN Fail(bc)
                ELSE Bind(Stage(flash_stage(bc.s, io), "FlashMount"), LAMBDA fm :
                    IF fm.r # "true" THEN Fail(fm)
                    ELSE boot_levels(fm.s, out)))))

----------------------------------------------------------------------------
(* Recovery provisioner *)

\* the bytes of "PS3UPDAT.PUP"
PupName == <<80, 83, 51, 85, 80, 68, 65, 84, 46, 80, 85, 80>>

\* what GSCX_RecoveryEntry does when called: returns, or faults (ctypes raises)
EntryOut == {"none", "raise"}

\* the native entry point is called and sees the environment of the process
CallEnv(S, i, entry, out) ==
    [S EXCEPT !.calls = Append(@, [entry |-> entry, out |-> out, environ |-> S.environ,
                                   index |-> i])]

\* the target directory: abspath(usb_dir) made if missing, or a new temporary
\* directory noted in _vusb_dir
recovery_target(S, usb_dir) ==
    IF usb_dir
    THEN [s |-> [S EXCEPT !.usb = IF @.exists THEN @ ELSE EmptyTmp], id |-> UsbDir]
    ELSE Bind(mkdtemp(S), LAMBDA mk : [s |-> [mk.s EXCEPT !.vusb_dir = mk.id], id |-> mk.id])

\* shutil.copy2(pup_path, target/PS3UPDAT.PUP)
copy2(S, target, data) ==
    IF target = UsbDir
    THEN [S EXCEPT !.usb.files = WriteBytes(@, PupName, data)]
    ELSE [S EXCEPT !.tmpfs[target].files = WriteBytes(@, PupName, data)]

\* recovery_prepare that leaves a binding in place when no firmware is given
recovery_prepare_keep(S, pup, usb_dir) ==
    IF pup.given
    THEN Bind(recovery_target(S, usb_dir), LAMBDA t :
             IF ~pup.exists THEN Out(Log(t.s), "raise", NoInfo)
             ELSE Out(Log([copy2(t.s, t.id, pup.data) EXCEPT
                             !.environ = [dir |-> t.id, name |-> PupName],
                             !.last_usb_dir = t.id]),
                      "none", NoInfo))
    ELSE Out(S, "none", NoInfo)

\* the first part of boot_recovery; pup = [given, exists, data] is the
\* firmware path and the file it names: copy2 raises when there is no file
recovery_prepare(S, pup, usb_dir) ==
    IF pup.given
    THEN Bind(recovery_target(S, usb_dir), LAMBDA t :
             IF ~pup.exists THEN Out(Log(t.s), "raise", NoInfo)
             ELSE Out(Log([copy2(t.s, t.id, pup.data) EXCEPT
                             !.environ = [dir |-> t.id, name |-> PupName],
                             !.last_usb_dir = t.id]),
                      "none", NoInfo))
    ELSE Out([S EXCEPT !.environ = Unset], "none", NoInfo)

\* recovery_entry that passes over the recovery modules without the entry
\* point and calls the first that has it
recovery_entry_resolving(S, out) ==
    LET hits == {i \in DOMAIN S.loaded : /\ StartsWith(S.loaded[i].name, "gscx_recovery")
                                         /\ "Stage" \in S.loaded[i].exports}
        i == CHOOSE k \in hits : \A j \in hits : k <= j
    IN  IF FirstLoaded(S, "gscx_recovery") = 0 THEN Out(S, "none", NoInfo)
        ELSE IF hits = {} THEN Out(Log(S), "none", NoInfo)
        ELSE IF out = "raise"
        THEN Out(CallEnv(Log(S), i, "GSCX_RecoveryEntry", out), "raise", NoInfo)
        ELSE Out(Log(CallEnv(Log(S), i, "GSCX_RecoveryEntry", out)), "none", NoInfo)

\* the loop over self.loaded: the entry point of the first recovery module;
\* the call notes the index of the module it went to
recovery_entry(S, out) ==
    LET i == FirstLoaded(S, "gscx_recovery")
    IN  IF i = 0 THEN Out(S, "none", NoInfo)
        ELSE IF "Stage" \notin S.loaded[i].exports THEN Out(Log(S), "none", NoInfo)
        ELSE IF out = "raise"
        THEN Out(CallEnv(Log(S), i, "GSCX_RecoveryEntry", out), "raise", NoInfo)
        ELSE Out(Log(CallEnv(Log(S), i, "GSCX_RecoveryEntry", out)), "none", NoInfo)

\* the finally block
recovery_cleanup(S) == [S EXCEPT !.environ = Unset]

\* boot_recovery that clears the binding only after the entry point returned
boot_recovery_nofinally(S, pup, usb_dir, out) ==
    Bind(recovery_prepare(S, pup, usb_dir), LAMBDA p :
        IF p.r = "raise" THEN p
        ELSE Bind(recovery_entry(p.s, out), LAMBDA e :
                 IF e.r = "raise" THEN e
                 ELSE Out(recovery_cleanup(e.s), e.r, NoInfo)))

boot_recovery(S, pup, usb_dir, out) ==
    Bind(recovery_prepare(S, pup, usb_dir), LAMBDA p :
        IF p.r = "raise" THEN p
        ELSE Bind(recovery_entry(p.s, out), LAMBDA e :
                 Out(recovery_cleanup(e.s), e.r, NoInfo)))

----------------------------------------------------------------------------
(* Default modules *)

\* the directory `build` under the working directory, with the recovery module
BuildId == 0
BuildDir ==
    [exists |-> TRUE,
     files |-> {[name |-> NameBytes("gscx_recovery.dll"), data |-> <<77, 90, 15, 1>>]},
     dirs |-> {}]

\* the id under which the k-th candidate directory (build, cpp/build, bin) is
\* searched
CandidateId(k) == BuildId + 1 - k

RECURSIVE LoadNameInDirs(_, _, _)
LoadNameInDirs(S, dirs, dll) ==
    IF dirs = <<>> THEN S
    ELSE Bind(LoadOne(S, Head(dirs), dll), LAMBDA S1 : LoadNameInDirs(S1, Tail(dirs), dll))

RECURSIVE LoadNamesInDirs(_, _, _)
LoadNamesInDirs(S, dirs, names) ==
    IF names = <<>> THEN S
    ELSE Bind(LoadNameInDirs(S, dirs, Head(names)),
              LAMBDA S1 : LoadNamesInDirs(S1, dirs, Tail(names)))

\* load_from_dirs with the loops exchanged: every directory is searched for
\* the first catalog name, then for the second, and so on
load_from_dirs_by_name(S, dirs) == LoadNamesInDirs(S, dirs, dll_names)

\* _load_from_dirs(dirs): the outer loop over the directories
RECURSIVE load_from_dirs(_, _)
load_from_dirs(S, dirs) ==
    IF dirs = <<>> THEN S
    ELSE Bind(LoadEach(S, Head(dirs), dll_names),
              LAMBDA S1 : load_from_dirs(S1, Tail(dirs)))

\* load_default_modules with cands the candidate directories in the order of
\* the code, each a directory on disk or no directory
load_default_modules(S, cands) ==
    LET found == SelectSeq([k \in DOMAIN cands |-> k], LAMBDA k : cands[k].exists)
        disk == [i \in {CandidateId(k) : k \in DOMAIN cands} |-> cands[BuildId + 1 - i]]
    IN  IF found = <<>> THEN Out(Log(S), "none", NoInfo)
        ELSE Bind(load_from_dirs([S EXCEPT !.tmpfs = disk @@ @],
                                 [j \in DOMAIN found |-> CandidateId(found[j])]),
                  LAMBDA S1 : Out([S1 EXCEPT !.tmpfs = S.tmpfs], "none", NoInfo))

----------------------------------------------------------------------------
(* Bundle files offered to the loader *)

U16(n) == <<n % 256, n \div 256>>
U32(n) == <<n % 256, (n \div 256) % 256, (n \div 65536) % 256, n \div 16777216>>

RECURSIVE TableSize(_)
TableSize(items) ==
    IF items = <<>> THEN 0 ELSE 12 + Len(Head(items).name) + TableSize(Tail(items))

RECURSIVE PackTable(_, _)
PackTable(items, off) ==
    IF items = <<>> THEN <<>>
    ELSE LET e == Head(items)
         IN  U16(e.kind) \o U16(Len(e.name)) \o e.name \o U32(off) \o U32(Len(e.data))
             \o PackTable(Tail(items), off + Len(e.data))

RECURSIVE PackData(_)
PackData(items) == IF items = <<>> THEN <<>> ELSE Head(items).data \o PackData(Tail(items))

\* the container holding items = <<[kind, name, data], ...>>: header, entry
\* table, then the payloads one after the other
Pack(items) ==
    U32(Magic) \o U16(1) \o U16(Len(items))
    \o PackTable(items, 8 + TableSize(items)) \o PackData(items)

\* a module image exporting the entry points of `mask`
Image(mask) == <<77, 90, mask, 1>>
Module(m, mask) == [kind |-> 1, name |-> NameBytes(DllName(m)), data |-> Image(mask)]

\* every module a full boot needs, each exporting every entry point
BundleBoot ==
    Pack(<<Module("gscx_cpu_cell", 15), Module("gscx_gpu_rsx", 15),
           Module("gscx_bootloader", 15), Module("gscx_hypervisor", 15)>>)

\* a system controller, and a bootloader whose LV0 entry point is missing
BundleSyscon == Pack(<<Module("gscx_syscon", 15), Module("gscx_bootloader", 7)>>)

\* a bootloader and a hypervisor, no CPU or GPU module
BundleNoCpu == Pack(<<Module("gscx_bootloader", 15), Module("gscx_hypervisor", 15)>>)

\* a system controller without its entry point
BundleBadSyscon == Pack(<<Module("gscx_syscon", 7)>>)

\* the first byte of the magic is wrong
BundleBadMagic == <<83>> \o Tail(BundleSyscon)

File(data) == [readable |-> TRUE, data |-> data]

----------------------------------------------------------------------------
(* State machine *)

\* the threads of the shell that call the loader: the GUI thread, the
\* RecoveryBootThread and the ScriptingRunThread.  A thread is at an
\* operation `op` and, inside it, in Python code before the native call
\* ("py"), inside the native entry point ("native") or past it ("done")
Threads == {"gui", "recovery", "script"}
Idle == [op |-> "idle", at |-> "py"]

\* the calls of ScriptingEngine.run the scripting panel makes: one on the
\* ScriptingRunThread and one on the GUI thread from the timer of
\* _on_run_file.  A call is not running ("idle"), called ("begin"), past
\* `self._cancel = False` ("reset"), past `cwd_backup = os.getcwd()`
\* ("saved") or executing the script ("exec"); `path` is whether it was given
\* a script file, `cancelled` whether cancel() was called since its reset
Runners == {"thread", "timer"}
NoRun == [at |-> "idle", path |-> FALSE, cwd_backup |-> "home", cancelled |-> FALSE]

State ==
    [loaded |-> loaded, temp_dir |-> temp_dir, vflash_dir |-> vflash_dir,
     vflash_info |-> vflash_info, active_ros |-> active_ros,
     tmpfs |-> tmpfs, vf |-> vf, environ |-> environ, vusb_dir |-> vusb_dir,
     last_usb_dir |-> last_usb_dir, usb |-> usb, logged |-> FALSE, deleted |-> 0,
     calls |-> <<>>, stages |-> <<>>]

Commit(S) ==
    /\ loaded' = S.loaded
    /\ temp_dir' = S.temp_dir
    /\ vflash_dir' = S.vflash_dir
    /\ vflash_info' = S.vflash_info
    /\ active_ros' = S.active_ros
    /\ tmpfs' = S.tmpfs
    /\ vf' = S.vf
    /\ environ' = S.environ
    /\ vusb_dir' = S.vusb_dir
    /\ last_usb_dir' = S.last_usb_dir
    /\ usb' = S.usb

Ret(op, arg, o) ==
    [op |-> op, arg |-> arg, result |-> o.r, info |-> o.info,
     logged |-> o.s.logged, deleted |-> o.s.deleted,
     stages |-> o.s.stages, calls |-> o.s.calls]

\* the method has returned o: the loader and the disk are as it left them
Returns(op, arg, o) ==
    \E x \in {o} : Commit(x.s) /\ ret' = Ret(op, arg, x) /\ UNCHANGED <<pc, scripting>>

Init ==
    /\ loaded = <<>>
    /\ temp_dir = 0
    /\ vflash_dir = 0
    /\ vflash_info = NoInfo
    /\ active_ros = "none"
    /\ tmpfs = [i \in TempIds |-> NoTmp]
    /\ vf = NoVf
    /\ environ = Unset
    /\ vusb_dir = 0
    /\ last_usb_dir = NoDir
    /\ usb = NoTmp
    /\ pc = [t \in Threads |-> Idle]
    /\ log_target = "shell"
    /\ cancel = FALSE
    /\ cwd = "home"
    /\ runs = [r \in Runners |-> NoRun]
    /\ ret = [op |-> "init", arg |-> "", result |-> "none", info |-> NoInfo,
              logged |-> FALSE, deleted |-> 0, stages |-> <<>>, calls |-> <<>>]

Initialize == \E io \in IO : Returns("initialize", "", initialize_virtual_flash(State, io))

GetInfo == \E io \in IO : Returns("info", "", get_vflash_info(State, io))

Mount == \E io \in IO : Returns("mount", "", mount_virtual_flash(State, io))

Format == \E io \in IO : Returns("format", "", format_virtual_flash(State, io))

CleanArgs == {"dev_flash", "dev_flash2", "dev_flash3", "ros0", "", "..", "missing"}

Clean ==
    \E p \in CleanArgs, io \in IO :
        Returns("clean", p, clean_vflash_partition(State, p, io))

CleanAll == \E io \in IO : Returns("clean_all", "", clean_all_vflash_partitions(State, io))

\* the emulated system (or a script, gscx.write_text) stores a file in a partition
EnvWriteUserFile ==
    \E p \in Range(partitions) :
        /\ IsSubDir(State, p)
        /\ vf' = [vf EXCEPT !.dirs[p].files = WriteFile(@, "user.bin", UserFileSize)]
        /\ ret' = [op |-> "env_write", arg |-> p, result |-> "none", info |-> NoInfo,
                   logged |-> FALSE, deleted |-> 0, stages |-> <<>>, calls |-> <<>>]
        /\ UNCHANGED <<loaded, temp_dir, vflash_dir, vflash_info, active_ros, tmpfs,
                       environ, vusb_dir, last_usb_dir, usb, pc, scripting>>

\* a script (os.remove of the Lua library) or the user removes an empty
\* partition directory
EnvRemovePartition ==
    \E p \in Range(partitions) :
        /\ IsSubDir(State, p)
        /\ vf.dirs[p].files = {}
        /\ vf' = [vf EXCEPT !.dirs[p] = NoSub]
        /\ ret' = [op |-> "env_remove", arg |-> p, result |-> "none", info |-> NoInfo,
                   logged |-> FALSE, deleted |-> 0, stages |-> <<>>, calls |-> <<>>]
        /\ UNCHANGED <<loaded, temp_dir, vflash_dir, vflash_info, active_ros, tmpfs,
                       environ, vusb_dir, last_usb_dir, usb, pc, scripting>>

PreferredArgs == {"none", "ros0", "ros1", "ROS1"}

SelectRos ==
    \E pref \in PreferredArgs, io \in IO :
        Returns("select", pref, select_ros_slot(State, pref, io))

Verify == \E io \in IO : Returns("verify", "", verify_lv0_and_appldr(State, io))

Validate == \E io \in IO : Returns("validate", "", validate_boot_chain(State, io))

\* a stub of a ROS slot is emptied (gscx.write_text(path, "")) or deleted
\* (os.remove from a script) behind the loader's back
StubFiles == {"lv0.self", "appldr.self"}

EnvDamage(slots) ==
    \E slot \in slots, name \in StubFiles, how \in {"empty", "delete"} :
        /\ IsSubDir(State, slot)
        /\ \E f \in vf.dirs[slot].files : f.name = name /\ f.size > 0
        /\ vf' = [vf EXCEPT !.dirs[slot].files =
                     IF how = "empty" THEN WriteFile(@, name, 0)
                     ELSE {f \in @ : f.name # name}]
        /\ ret' = [op |-> "env_damage", arg |-> slot, result |-> "none", info |-> NoInfo,
                   logged |-> FALSE, deleted |-> 0, stages |-> <<>>, calls |-> <<>>]
        /\ UNCHANGED <<loaded, temp_dir, vflash_dir, vflash_info, active_ros, tmpfs,
                       environ, vusb_dir, last_usb_dir, usb, pc, scripting>>

EnvDamageAny == EnvDamage(Range(ros_slots))

Load(bundles) ==
    \E b \in bundles :
        \E o \in {load_from_gscore(State, b)} :
            /\ Len(o.s.loaded) <= MaxLoaded
            /\ Returns("load", b, o)

Unload == Returns("unload", "", unload_all(State))

Boot(outs) ==
    \E io \in IO, out \in outs :
        Returns("boot", "", execute_full_boot_sequence(State, io, out))

AllOuts == [syscon : NativeOut, lv0 : NativeOut, lv1 : NativeOut]

\* the native entry points all succeed
GoodOuts == {[syscon |-> "true", lv0 |-> "true", lv1 |-> "true"]}

LoadAny == Load({File(BundleBoot), File(BundleBadMagic)})

BootGood == Boot(GoodOuts)

Next ==
    \/ Initialize
    \/ Unload
    \/ LoadAny
    \/ Mount
    \/ GetInfo
    \/ Format
    \/ Clean
    \/ CleanAll
    \/ SelectRos
    \/ Verify
    \/ Validate
    \/ BootGood
    \/ EnvWriteUserFile

Spec == Init /\ [][Next]_vars

\* ROS slot selection and boot chain validation over every state of the stubs
NextChain ==
    \/ Initialize
    \/ Format
    \/ SelectRos
    \/ Verify
    \/ Validate
    \/ EnvDamageAny

SpecChain == Init /\ [][NextChain]_vars

\* the maintenance operations over partitions that come and go
NextClean ==
    \/ Initialize
    \/ Clean
    \/ CleanAll
    \/ EnvWriteUserFile
    \/ EnvRemovePartition

SpecClean == Init /\ [][NextClean]_vars

\* the entries under base that may resist deletion (a file of theirs is held
\* open by another process, or a permission is missing)
StuckSets == SUBSET {"dev_flash", "ros0"}

FormatStuck ==
    \E io \in IO, stuck \in StuckSets :
        Returns("format", [stuck |-> stuck, before |-> vf],
                format_virtual_flash_with(State, io, stuck))

\* formatting a flash whose entries come, go and resist deletion
NextFormat ==
    \/ Initialize
    \/ FormatStuck
    \/ EnvWriteUserFile
    \/ EnvDamageAny
    \/ Unload

SpecFormat == Init /\ [][NextFormat]_vars

\* entries for the container builder: the names "a", "b", "a/b", "a/" and "./a"
EntryNames == {<<97>>, <<98>>, <<97, 47, 98>>, <<97, 47>>, <<46, 47, 97>>}
EntryData == {<<7>>, <<8, 9>>}
Items == [kind : {1}, name : EntryNames, data : EntryData]

\* no entry, one entry, or two entries with payloads of different lengths
ItemLists ==
    {<<>>} \cup {<<x>> : x \in Items}
    \cup {<<x, y>> : x \in {i \in Items : i.data = <<7>>},
                     y \in {i \in Items : i.data = <<8, 9>>}}

\* the containers of ItemLists, each with the entries it was built from
PackedLists == {[items |-> items, data |-> Pack(items)] : items \in ItemLists}

\* a well-formed container of two files, "ab" and "b"
TwoFiles ==
    Pack(<<[kind |-> 1, name |-> <<97, 98>>, data |-> <<7>>],
           [kind |-> 1, name |-> <<98>>, data |-> <<8, 9>>]>>)

\* where the entry table of TwoFiles ends and its payloads begin
TwoFilesTableEnd == Len(TwoFiles) - Len(<<7>> \o <<8, 9>>)

\* TwoFiles cut short after n bytes
Truncated(n) == SubSeq(TwoFiles, 1, n)

\* TwoFiles with one byte of the magic changed
BadMagics == {[TwoFiles EXCEPT ![i] = (@ + 1) % 256] : i \in 1..4}

\* a file, an entry that cannot be written because that file is in its way,
\* and a module
BundleMixed ==
    Pack(<<[kind |-> 1, name |-> <<97>>, data |-> <<7>>],
           [kind |-> 1, name |-> <<97, 47, 98>>, data |-> <<8, 9>>],
           Module("gscx_bootloader", 15)>>)

Unreadable == [readable |-> FALSE, data |-> <<>>]

\* TwoFiles cut inside its entry table, inside the second entry of the table,
\* and inside its payloads
TableCuts == {Truncated(n) : n \in 8..(TwoFilesTableEnd - 1)}
SecondEntryCuts == {Truncated(n) : n \in (8 + 12 + 2)..(TwoFilesTableEnd - 1)}
PayloadCuts == {Truncated(n) : n \in TwoFilesTableEnd..(Len(TwoFiles) - 1)}

CodecBundles ==
    {File(pk.data) : pk \in PackedLists}
    \cup {File(Truncated(n)) : n \in 0..Len(TwoFiles)}
    \cup {File(d) : d \in BadMagics}
    \cup {File(BundleMixed), File(BundleBadMagic), Unreadable}

LoadCodec == Load(CodecBundles)

\* the container codec over well-formed, cut and corrupted containers
NextCodec ==
    \/ LoadCodec
    \/ Unload

SpecCodec == Init /\ [][NextCodec]_vars

\* module files of every kind: not a library, a library without
\* GSCX_Initialize, without GSCX_Shutdown, one whose initializer returns
\* true, returns false or raises, and one whose shutdown raises
ModuleKinds == {"broken", "noinit", "noshut", "true", "false", "raise", "badshut"}

ImageOf(kind) ==
    CASE kind = "broken" -> <<0, 0, 0, 0>>
      [] kind = "noinit" -> <<77, 90, 13, 1>>
      [] kind = "noshut" -> <<77, 90, 11, 1>>
      [] kind = "true" -> <<77, 90, 15, 1>>
      [] kind = "false" -> <<77, 90, 15, 0>>
      [] kind = "raise" -> <<77, 90, 15, 2>>
      [] kind = "badshut" -> <<77, 90, 15, 1, 2>>

\* a container with the GPU module and the CPU module, in that order, one file
\* of each kind
ModuleItems(gpu, cpu) ==
    <<[kind |-> 1, name |-> NameBytes("gscx_gpu_rsx.dll"), data |-> ImageOf(gpu)],
      [kind |-> 1, name |-> NameBytes("gscx_cpu_cell.dll"), data |-> ImageOf(cpu)]>>

\* one file of each kind beside a sound one, and two files that both fail
ModuleBundles ==
    {File(Pack(ModuleItems(k, "true"))) : k \in ModuleKinds}
    \cup {File(Pack(ModuleItems("true", k))) : k \in ModuleKinds}
    \cup {File(Pack(ModuleItems("broken", "raise")))}

LoadModules == Load(ModuleBundles)

\* batches of module files of every kind, loaded and unloaded
NextModules ==
    \/ LoadModules
    \/ Unload

SpecModules == Init /\ [][NextModules]_vars

\* the boot sequence over module sets and native outcomes
LoadBoot ==
    Load({File(BundleBoot), File(BundleSyscon), File(BundleNoCpu), File(BundleBadSyscon)})

BootAny == Boot(AllOuts)

EnvDamageRos0 == EnvDamage({"ros0"})

NextBoot ==
    \/ LoadBoot
    \/ Unload
    \/ BootAny
    \/ EnvDamageRos0

SpecBoot == Init /\ [][NextBoot]_vars

\* the boot sequence over a layout whose stubs and partition directories are
\* damaged or removed between the calls
NextFlashBoot ==
    \/ LoadAny
    \/ BootGood
    \/ EnvDamageAny
    \/ EnvRemovePartition

SpecFlashBoot == Init /\ [][NextFlashBoot]_vars

\* a CPU module without a GPU module, and a hypervisor whose LV1 entry point
\* is missing
BundleCpuOnly == Pack(<<Module("gscx_cpu_cell", 15), Module("gscx_hypervisor", 7)>>)

LoadStages ==
    Load({File(BundleBoot), File(BundleSyscon), File(BundleBadSyscon), File(BundleCpuOnly)})

Syscon == \E out \in NativeOut : Returns("initialize_syscon", out, initialize_syscon(State, out))

Lv0 == \E out \in NativeOut : Returns("boot_lv0_stage", out, boot_lv0_stage(State, out))

Lv1 == \E out \in NativeOut : Returns("boot_lv1_stage", out, boot_lv1_stage(State, out))

Lv2 == Returns("boot_lv2_stage", "", boot_lv2_stage(State))

\* the stages called one by one over module sets and native outcomes
NextStages ==
    \/ LoadStages
    \/ Unload
    \/ Syscon
    \/ Lv0
    \/ Lv1
    \/ Lv2

SpecStages == Init /\ [][NextStages]_vars

\* a module file of a candidate directory
BuildFile(m, data) == [name |-> NameBytes(DllName(m)), data |-> data]

\* candidate directories: one with the CPU and GPU modules and a file that
\* is no library, one with another GPU module and a recovery module whose
\* initializer raises
DirA ==
    [exists |-> TRUE,
     files |-> {BuildFile("gscx_gpu_rsx", <<77, 90, 15, 1>>),
                BuildFile("gscx_cpu_cell", <<77, 90, 15, 0>>),
                BuildFile("gscx_syscon", <<0, 0, 0, 0>>)},
     dirs |-> {}]
DirB ==
    [exists |-> TRUE,
     files |-> {BuildFile("gscx_recovery", <<77, 90, 15, 2>>),
                BuildFile("gscx_gpu_rsx", <<77, 90, 13, 1>>)},
     dirs |-> {}]

\* what may be at build, cpp/build and bin under the working directory
CandidateDirs ==
    {<<NoTmp, NoTmp, NoTmp>>, <<DirA, NoTmp, DirB>>, <<DirB, DirA, NoTmp>>,
     <<NoTmp, DirB, NoTmp>>, <<NoTmp, NoTmp, DirA>>, <<DirB, DirB, DirB>>}

LoadDefault ==
    \E cands \in CandidateDirs :
        \E o \in {load_default_modules(State, cands)} :
            /\ Len(o.s.loaded) <= MaxLoaded
            /\ Returns("load_default_modules", cands, o)

LoadBundle == Load({File(BundleSyscon), File(BundleCpuOnly), File(BundleBadSyscon)})

\* default modules and bundles loaded and unloaded in any order
NextDefault ==
    \/ LoadDefault
    \/ LoadBundle
    \/ Unload

SpecDefault == Init /\ [][NextDefault]_vars

\* a recovery module exporting its entry point beside another module, and a
\* recovery module without its entry point
BundleRecovery == Pack(<<Module("gscx_syscon", 15), Module("gscx_recovery", 15)>>)
BundleRecoveryNoEntry == Pack(<<Module("gscx_recovery", 7)>>)

LoadRecovery == Load({File(BundleRecovery), File(BundleRecoveryNoEntry)})

\* no firmware path, the path of a firmware file, a path that names no file
Pups ==
    {[given |-> FALSE, exists |-> FALSE, data |-> <<>>],
     [given |-> TRUE, exists |-> TRUE, data |-> <<83, 67, 69>>],
     [given |-> TRUE, exists |-> FALSE, data |-> <<>>]}

\* a temporary directory can be made and one is left for the next bundle
CanMakeTemp ==
    LET free == {i \in TempIds : ~tmpfs[i].exists /\ i # vflash_dir}
    IN  Cardinality(free) >= (IF temp_dir = 0 THEN 2 ELSE 1)

BootRecovery ==
    \E pup \in Pups, usb_dir \in BOOLEAN, out \in EntryOut :
        /\ pup.given /\ ~usb_dir => CanMakeTemp
        /\ Returns("boot_recovery",
                   [pup |-> pup, usb_dir |-> usb_dir, out |-> out, environ |-> environ],
                   boot_recovery(State, pup, usb_dir, out))

\* a script binds the variable: gscx.setenv("GSCX_RECOVERY_PUP", path)
OtherPath == [dir |-> UsbDir, name |-> <<88>>]

Setenv ==
    /\ environ # OtherPath
    /\ Commit([State EXCEPT !.environ = OtherPath])
    /\ ret' = [op |-> "setenv", arg |-> "", result |-> "none", info |-> NoInfo,
               logged |-> FALSE, deleted |-> 0, stages |-> <<>>, calls |-> <<>>]
    /\ UNCHANGED <<pc, scripting>>

NextRecovery ==
    \/ LoadRecovery
    \/ Unload
    \/ BootRecovery
    \/ Setenv

SpecRecovery == Init /\ [][NextRecovery]_vars

\* the fields of the loader, the disk and the environment
fields ==
    <<loaded, temp_dir, vflash_dir, vflash_info, active_ros, tmpfs, vf,
      environ, vusb_dir, last_usb_dir, usb>>

\* the operations of the loader the threads of the shell call
LoaderOps == {"load_default_modules", "boot_recovery", "unload_all"}

At(t, op, at) == pc[t] = [op |-> op, at |-> at]

Goto(t, op, at) == pc' = [pc EXCEPT ![t] = [op |-> op, at |-> at]]

Note(op, t) ==
    ret' = [op |-> op, arg |-> t, result |-> "none", info |-> NoInfo,
            logged |-> FALSE, deleted |-> 0, stages |-> <<>>, calls |-> <<>>]

\* start_recovery_mode on the GUI thread: refused while the recovery thread
\* is running; it shows an application-modal dialog and starts the thread
StartRecovery ==
    /\ pc["gui"] = Idle
    /\ pc["recovery"] = Idle
    /\ Goto("recovery", "start", "py")
    /\ Note("start_recovery_mode", "gui")
    /\ UNCHANGED <<fields, scripting>>

\* ScriptingWidget._on_run on the GUI thread: refused while a script thread
\* is running; the modal dialog of a recovery keeps the user from the button
StartScript ==
    /\ pc["gui"] = Idle
    /\ pc["recovery"] = Idle
    /\ pc["script"] = Idle
    /\ Goto("script", "running", "py")
    /\ Note("_on_run", "gui")
    /\ UNCHANGED <<fields, scripting>>

\* the script comes to its end
ScriptFinish ==
    /\ At("script", "running", "py")
    /\ Goto("script", "idle", "py")
    /\ Note("finished", "script")
    /\ UNCHANGED <<fields, scripting>>

\* where a thread goes on after an operation of the loader has returned
After(t, op) ==
    CASE t = "recovery" /\ op = "load_default_modules" -> "loaded"
      [] t = "recovery" /\ op = "boot_recovery" -> "idle"
      [] t = "script" -> "running"
      [] t = "gui" -> "idle"

\* a thread calls load_default_modules: RecoveryBootThread.run first of all,
\* a script through gscx.load_modules()
BeginLoad ==
    \E t \in {"recovery", "script"} :
        /\ At(t, IF t = "recovery" THEN "start" ELSE "running", "py")
        /\ Len(loaded) < MaxLoaded
        /\ Goto(t, "load_default_modules", "py")
        /\ Note("load_default_modules", t)
        /\ UNCHANGED <<fields, scripting>>

\* the firmware paths the shell passes: none, or a file it has validated
ThreadPups == {q \in Pups : q.given => q.exists}

\* a thread calls boot_recovery with a directory for the copy:
\* RecoveryBootThread.run after the modules, a script through
\* gscx.boot_recovery(); the call prepares the binding first
BeginRecovery ==
    \E t \in {"recovery", "script"}, pup \in ThreadPups :
        /\ At(t, IF t = "recovery" THEN "loaded" ELSE "running", "py")
        /\ Commit(recovery_prepare(State, pup, TRUE).s)
        /\ Goto(t, "boot_recovery", "py")
        /\ Note("boot_recovery", t)
        /\ UNCHANGED scripting

\* shutdown_ps3_system on the GUI thread calls unload_all; the modal dialog
\* of a recovery keeps the user from it
BeginUnload ==
    /\ pc["gui"] = Idle
    /\ pc["recovery"] = Idle
    /\ loaded # <<>>
    /\ Goto("gui", "unload_all", "py")
    /\ Note("unload_all", "gui")
    /\ UNCHANGED <<fields, scripting>>

\* whether the operation finds an entry point to call: GSCX_Initialize of a
\* module of the build directory, GSCX_RecoveryEntry of the first recovery
\* module, GSCX_Shutdown of a loaded module
HasNative(S, op) ==
    CASE op = "load_default_modules" ->
           \E f \in BuildDir.files : DllLoads(f.data) /\ "Initialize" \in DllExports(f.data)
      [] op = "boot_recovery" ->
           /\ FirstLoaded(S, "gscx_recovery") # 0
           /\ "Stage" \in S.loaded[FirstLoaded(S, "gscx_recovery")].exports
      [] op = "unload_all" ->
           \E i \in DOMAIN S.loaded : "Shutdown" \in S.loaded[i].exports

\* the thread enters the native entry point (ctypes releases the GIL)
CallNative ==
    \E t \in Threads :
        /\ pc[t].op \in LoaderOps
        /\ pc[t].at = "py"
        /\ HasNative(State, pc[t].op)
        /\ Goto(t, pc[t].op, "native")
        /\ Note("call", t)
        /\ UNCHANGED <<fields, scripting>>

\* the native entry point returns
ReturnNative ==
    \E t \in Threads :
        /\ pc[t].op \in LoaderOps
        /\ pc[t].at = "native"
        /\ Goto(t, pc[t].op, "done")
        /\ Note("return", t)
        /\ UNCHANGED <<fields, scripting>>

\* what the operation has done to the loader when it returns
Finish(S, op) ==
    CASE op = "load_default_modules" -> load_default_modules(S, <<BuildDir, NoTmp, NoTmp>>).s
      [] op = "boot_recovery" -> recovery_cleanup(recovery_entry(S, "none").s)
      [] op = "unload_all" -> unload_all(S).s

\* the operation returns to the thread that called it
EndOp ==
    \E t \in Threads :
        /\ pc[t].op \in LoaderOps
        /\ pc[t].at = "done" \/ (pc[t].at = "py" /\ ~HasNative(State, pc[t].op))
        /\ Commit(Finish(State, pc[t].op))
        /\ Goto(t, After(t, pc[t].op), "py")
        /\ Note("end", t)
        /\ UNCHANGED scripting

\* the GUI thread, the recovery thread and the script thread on one loader
NextThreads ==
    \/ StartRecovery
    \/ StartScript
    \/ ScriptFinish
    \/ BeginLoad
    \/ BeginRecovery
    \/ BeginUnload
    \/ CallNative
    \/ ReturnNative
    \/ EndOp

SpecThreads == Init /\ [][NextThreads]_vars

----------------------------------------------------------------------------
(* Log bridge *)

\* the ModulesLoader instances of the process: the one the model follows,
\* made by the shell, and one more that is constructed after it
Instances == {"shell", "other"}

\* _LogBridge.handle: the line goes to the callable the class attribute
\* `target` is bound to at the time of the call
handle(module) == [module |-> module, sink |-> log_target]

\* ModulesLoader.__init__ of one more instance: it binds _LogBridge.target
\* to its own on_log
Construct ==
    /\ log_target' = "other"
    /\ ret' = [op |-> "construct", arg |-> "other", result |-> "none", info |-> NoInfo,
               logged |-> FALSE, deleted |-> 0, stages |-> <<>>, calls |-> <<>>]
    /\ UNCHANGED <<fields, pc, cancel, cwd, runs>>

\* a module that was handed the HostServicesTable in GSCX_Initialize calls
\* one of its log callbacks
NativeLog ==
    \E i \in DOMAIN loaded :
        /\ "Initialize" \in loaded[i].exports
        /\ ret' = [op |-> "native_log", arg |-> handle(i), result |-> "none",
                   info |-> NoInfo, logged |-> FALSE, deleted |-> 0, stages |-> <<>>,
                   calls |-> <<>>]
        /\ UNCHANGED <<fields, pc, scripting>>

NextLog ==
    \/ LoadBoot
    \/ Unload
    \/ Construct
    \/ NativeLog

SpecLog == Init /\ [][NextLog]_vars

----------------------------------------------------------------------------
(* Scripting engine *)

\* the directories the process works in: the one it was started in, the one
\* that holds the script file, and one a script changes to with gscx.chdir
WorkDirs == {"home", "scripts", "other"}

Running(r) == runs[r].at # "idle"

NoteRun(op, r) ==
    ret' = [op |-> op, arg |-> r, result |-> "none", info |-> NoInfo,
            logged |-> FALSE, deleted |-> 0, stages |-> <<>>, calls |-> <<>>]

\* ScriptingWidget._on_run: the text of the editor is run on the
\* ScriptingRunThread, without a script file
OnRun ==
    /\ \A r \in Runners : ~Running(r)
    /\ runs' = [runs EXCEPT !["thread"] = [NoRun EXCEPT !.at = "begin"]]
    /\ NoteRun("_on_run", "thread")
    /\ UNCHANGED <<fields, pc, log_target, cancel, cwd>>

\* ScriptingWidget._on_run_file: the ScriptingRunThread is started with
\* script_path, and a timer of the GUI thread calls engine.run_file(path)
OnRunFile ==
    /\ \A r \in Runners : ~Running(r)
    /\ runs' = [r \in Runners |-> [NoRun EXCEPT !.at = "begin", !.path = TRUE]]
    /\ NoteRun("_on_run_file", "thread")
    /\ UNCHANGED <<fields, pc, log_target, cancel, cwd>>

\* run, line 878: self._cancel = False
RunReset ==
    \E r \in Runners :
        /\ runs[r].at = "begin"
        /\ cancel' = FALSE
        /\ runs' = [runs EXCEPT ![r].at = "reset"]
        /\ NoteRun("reset", r)
        /\ UNCHANGED <<fields, pc, log_target, cwd>>

\* run, line 880: cwd_backup = os.getcwd()
RunGetcwd ==
    \E r \in Runners :
        /\ runs[r].at = "reset"
        /\ runs' = [runs EXCEPT ![r].at = "saved", ![r].cwd_backup = cwd]
        /\ NoteRun("getcwd", r)
        /\ UNCHANGED <<fields, pc, log_target, cancel, cwd>>

\* run, lines 882-885: os.chdir to the directory of the script file, if one
\* was given; then the script starts
RunChdir ==
    \E r \in Runners :
        /\ runs[r].at = "saved"
        /\ cwd' = IF runs[r].path THEN "scripts" ELSE cwd
        /\ runs' = [runs EXCEPT ![r].at = "exec"]
        /\ NoteRun("execute", r)
        /\ UNCHANGED <<fields, pc, log_target, cancel>>

\* the script calls gscx.chdir
ScriptChdir ==
    \E r \in Runners :
        /\ runs[r].at = "exec"
        /\ cwd # "other"
        /\ cwd' = "other"
        /\ NoteRun("chdir", r)
        /\ UNCHANGED <<fields, pc, log_target, cancel, runs>>

\* ScriptingEngine.cancel, from any thread while a call of run is under way
Cancel ==
    /\ \E r \in Runners : Running(r)
    /\ cancel' = TRUE
    /\ runs' = [r \in Runners |->
                   IF runs[r].at \in {"reset", "saved", "exec"}
                   THEN [runs[r] EXCEPT !.cancelled = TRUE] ELSE runs[r]]
    /\ NoteRun("cancel", "gui")
    /\ UNCHANGED <<fields, pc, log_target, cwd>>

\* gscx.check_cancel() of the script: bool(self._cancel); gscx.sleep goes on
\* sleeping while it is false
check_cancel == cancel

\* run, lines 898-902: the script has ended or raised; os.chdir(cwd_backup)
RunFinally ==
    \E r \in Runners :
        /\ runs[r].at = "exec"
        /\ cwd' = runs[r].cwd_backup
        /\ runs' = [runs EXCEPT ![r] = NoRun]
        /\ NoteRun("return", r)
        /\ UNCHANGED <<fields, pc, log_target, cancel>>

NextEngine ==
    \/ OnRun
    \/ OnRunFile
    \/ RunReset
    \/ RunGetcwd
    \/ RunChdir
    \/ ScriptChdir
    \/ Cancel
    \/ RunFinally

SpecEngine == Init /\ [][NextEngine]_vars

----------------------------------------------------------------------------
(* Properties *)

BootCalled(entry, out) ==
    \E i \in DOMAIN ret.calls : ret.calls[i].entry = entry /\ ret.calls[i].out = out

BootStages == {ret.stages[i].stage : i \in DOMAIN ret.stages}

\* base/slot/name exists on disk with a size above zero
StubOk(slot, name) ==
    /\ vf.exists
    /\ vf.dirs[slot].exists
    /\ \E f \in vf.dirs[slot].files : f.name = name /\ f.size > 0

SlotIntact(slot) == StubOk(slot, "lv0.self") /\ StubOk(slot, "appldr.self")

LayoutRecorded == vflash_info # NoInfo

\* C1: in one call of execute_full_boot_sequence the stages run in the fixed
\* order HardwareDetect, SysconInit, BootChainValidate, FlashMount, LV0, LV1,
\* LV2, each at most once, a stage runs only if every earlier one succeeded,
\* and when the LV0 entry point returns false neither the LV1 entry point
\* nor the LV2 stage is invoked.
C1_StagesInOrderAndGated ==
    ret.op = "boot" =>
        /\ Len(ret.stages) >= 1
        /\ Len(ret.stages) <= Len(StageOrder)
        /\ \A i \in DOMAIN ret.stages : ret.stages[i].stage = StageOrder[i]
        /\ \A i \in DOMAIN ret.stages : i < Len(ret.stages) => ret.stages[i].ok
        /\ \A i, j \in DOMAIN ret.calls : ret.calls[i].entry = ret.calls[j].entry => i = j
        /\ BootCalled("GSCX_LV0_Entry", "false") =>
               /\ \A i \in DOMAIN ret.calls : ret.calls[i].entry # "GSCX_LV1_Entry"
               /\ BootStages \cap {"LV1", "LV2"} = {}

C1_Witness ==
    /\ ret.op = "boot"
    /\ BootCalled("GSCX_LV0_Entry", "false")
    /\ Len(ret.stages) = 5

\* C2: execute_full_boot_sequence returns true exactly when all seven stages
\* returned success in that call, and false in every other case, a native
\* entry point that raises included.
C2_TrueIffAllStages ==
    ret.op = "boot" =>
        /\ ret.result \in {"true", "false"}
        /\ ret.result = "true" <=>
               /\ BootStages = Range(StageOrder)
               /\ \A i \in DOMAIN ret.stages : ret.stages[i].ok
        /\ (\E i \in DOMAIN ret.calls : ret.calls[i].out = "raise") => ret.result = "false"

C2_Witness ==
    /\ ret.op = "boot"
    /\ ret.result = "true"
    /\ Len(ret.stages) = 7

\* C3: validate_boot_chain returns true exactly when one of the two ROS slots
\* holds both lv0.self and appldr.self with a size above zero, whatever the
\* state (present, empty, missing) of the four stubs.
C3_ValidateIffIntactSlot ==
    ret.op = "validate" =>
        (ret.result = "true" <=> \E slot \in Range(ros_slots) : SlotIntact(slot))

\* the fallback: ros0 is selected first, fails verification, ros1 passes
C3_Witness ==
    /\ ret.op = "validate"
    /\ ret.result = "true"
    /\ StubOk("ros0", "lv0.self")
    /\ ~StubOk("ros0", "appldr.self")

\* C4: with a layout recorded, when ros0/lv0.self is deleted or emptied and
\* ros1 is intact, validate_boot_chain returns true and the active slot is
\* ros1; when neither slot has a valid lv0.self it returns false and no
\* active slot is set.
C4_FallbackToRos1 ==
    (ret.op = "validate" /\ LayoutRecorded) =>
        /\ (~StubOk("ros0", "lv0.self") /\ SlotIntact("ros1")) =>
               (ret.result = "true" /\ active_ros = "ros1")
        /\ (~StubOk("ros0", "lv0.self") /\ ~StubOk("ros1", "lv0.self")) =>
               (ret.result = "false" /\ active_ros = "none")

C4_Witness ==
    /\ ret.op = "validate"
    /\ LayoutRecorded
    /\ vf.exists
    /\ ~StubOk("ros0", "lv0.self")
    /\ SlotIntact("ros1")
    /\ active_ros = "ros1"

\* C5: select_ros_slot(preferred) returns, and records as the active slot,
\* the first slot with a non-empty lv0.self in the order [preferred, other]
\* (in the order [ros0, ros1] without a preference), and returns none and
\* clears the active slot when no slot qualifies.
C5_FirstValidCandidate ==
    (ret.op = "select" /\ ret.arg \in {"none", "ros0", "ros1"}) =>
        LET first == IF ret.arg = "ros1" THEN "ros1" ELSE "ros0"
            other == IF ret.arg = "ros1" THEN "ros0" ELSE "ros1"
            expected == IF StubOk(first, "lv0.self") THEN first
                        ELSE IF StubOk(other, "lv0.self") THEN other
                        ELSE "none"
        IN  ret.result = expected /\ active_ros = expected

\* the preference decides: both slots qualify and ros1 is taken
C5_Witness ==
    /\ ret.op = "select"
    /\ ret.arg = "ros1"
    /\ ret.result = "ros1"
    /\ StubOk("ros0", "lv0.self")

\* C6: whenever a layout is recorded, base and the directories dev_flash,
\* dev_flash2, dev_flash3, ros0 and ros1 exist on disk.
C6_LayoutOnDisk ==
    LayoutRecorded =>
        /\ vf.exists
        /\ \A d \in Range(partitions) \cup Range(ros_slots) : vf.dirs[d].exists

\* C7: whenever mount_virtual_flash returns true, the directories dev_flash,
\* dev_flash2 and dev_flash3 exist under base.
C7_MountMeansPartitionsExist ==
    (ret.op = "mount" /\ ret.result = "true") =>
        /\ vf.exists
        /\ \A d \in Range(partitions) : vf.dirs[d].exists

\* the loader as its constructor leaves it
FreshLoader ==
    [loaded |-> <<>>, temp_dir |-> 0, vflash_dir |-> 0, vflash_info |-> NoInfo,
     active_ros |-> "none", tmpfs |-> [i \in TempIds |-> NoTmp], vf |-> NoVf,
     logged |-> FALSE, deleted |-> 0, calls |-> <<>>, stages |-> <<>>]

FreshInfo == initialize_virtual_flash(FreshLoader, "ok").info

\* C8: after any sequence of operations, the layout get_vflash_info and
\* format_virtual_flash report names the partitions dev_flash, dev_flash2,
\* dev_flash3 and the same ROS slots as the first initialize of a new loader.
C8_InfoNamesStable ==
    (ret.op \in {"info", "format"} /\ ret.result = "info") =>
        /\ ret.info.partitions = <<"dev_flash", "dev_flash2", "dev_flash3">>
        /\ ret.info.partitions = FreshInfo.partitions
        /\ ret.info.ros_slots = FreshInfo.ros_slots

\* info() after the contents were wiped: a seeded directory is empty
C8_Witness ==
    /\ ret.op = "info"
    /\ ret.result = "info"
    /\ vf.exists
    /\ vf.dirs["ros0"].exists
    /\ vf.dirs["ros0"].files = {}

\* what clean_vflash_partition(q) may change: the entries of directory q
CleanFrame(q) ==
    /\ vf'.exists = vf.exists
    /\ vf'.dirs[q].exists = vf.dirs[q].exists
    /\ vf'.dirs[q].files = {}
    /\ \A d \in SubDirs \ {q} : vf'.dirs[d] = vf.dirs[d]
    /\ vflash_info' = vflash_info
    /\ active_ros' = active_ros

CleanOf(q) == ret'.op = "clean" /\ ret'.arg = q /\ ret'.result # "raise"

C10_RejectsOtherNames ==
    [][\A n \in CleanArgs :
          (/\ ret'.op = "clean"
           /\ ret'.arg = n
           /\ LayoutRecorded
           /\ ~(n \in SubDirs /\ vf.exists /\ vf.dirs[n].exists))
          => (ret'.result = "false" /\ ret'.deleted = 0 /\ vf' = vf /\ tmpfs' = tmpfs)]_vars

\* C11: clean_all_vflash_partitions calls clean_vflash_partition once for
\* every recorded partition name, in order, whatever the earlier calls
\* returned, and returns true exactly when every call returned true; a call
\* that returned true left its directory empty.
C11_CleanAllEveryPartition ==
    (ret.op = "clean_all" /\ ret.result # "raise") =>
        /\ Len(ret.calls) = Len(vflash_info.partitions)
        /\ \A i \in DOMAIN ret.calls :
              /\ ret.calls[i].entry = vflash_info.partitions[i]
              /\ ret.calls[i].out = "true" =>
                    (IsSubDir(State, ret.calls[i].entry)
                     /\ vf.dirs[ret.calls[i].entry].files = {})
        /\ ret.result = "true" <=> \A i \in DOMAIN ret.calls : ret.calls[i].out = "true"

\* the first partition was missing, the later ones were still cleaned
C11_Witness ==
    /\ ret.op = "clean_all"
    /\ ret.result = "false"
    /\ Len(ret.calls) = 3
    /\ ret.calls[1].out = "false"
    /\ ret.calls[2].out = "true"
    /\ ret.calls[3].out = "true"
    /\ ret.deleted >= 1

\* the last call was load_from_gscore on the file holding `data`
LoadOf(data) == ret.op = "load" /\ ret.arg = File(data)

\* the staging directory of the loader
Staging == IF temp_dir = 0 THEN NoTmp ELSE tmpfs[temp_dir]

DistinctNames(items) ==
    \A i, j \in DOMAIN items : i # j => items[i].name # items[j].name

\* a relative name that names a file: not empty, not rooted, no trailing separator
NamesFile(name) == name # <<>> /\ name[1] # Slash /\ name[Len(name)] # Slash

\* a name written the way the file system resolves it, and no file of the
\* list where another entry needs a directory
PlainNames(items) ==
    \A i, j \in DOMAIN items :
        /\ items[i].name = Join(Steps(items[i].name))
        /\ items[i].name \notin Ancestors(Steps(dirname(items[j].name)))

\* staging/name holds the payload of every entry, and nothing else is staged
RoundTrip(items) ==
    /\ Staging.exists
    /\ Cardinality(Staging.files) = Len(items)
    /\ \A i \in DOMAIN items :
          \E f \in Staging.files :
              f.name = Join(Steps(items[i].name)) /\ f.data = items[i].data

LoadRejected ==
    /\ ret'.logged
    /\ ret'.calls = <<>>
    /\ UNCHANGED <<loaded, temp_dir, vflash_dir, vflash_info, active_ros, tmpfs, vf>>

\* C13: load_from_gscore on a buffer of eight bytes or more whose first four
\* bytes are not the magic logs the failure and changes nothing: no staging
\* directory is made, no file is written, the staging directory and the
\* modules of before stay.
C13_BadMagicNoExtraction ==
    [][(/\ ret'.op = "load"
        /\ ret'.arg.readable
        /\ Len(ret'.arg.data) >= 8
        /\ SubSeq(ret'.arg.data, 1, 4) # U32(Magic))
       => LoadRejected]_vars

\* a container with a wrong magic was refused while files of an earlier
\* extraction were staged
C13_Witness ==
    /\ ret.op = "load"
    /\ ret.arg.data \in BadMagics
    /\ ret.logged
    /\ Staging.exists
    /\ Staging.files # {}

\* C14: load_from_gscore on TwoFiles cut anywhere after the header and before
\* the end of its entry table logs the failure and changes nothing.
C14_TruncatedTableFails ==
    [][(ret'.op = "load" /\ ret'.arg.readable /\ ret'.arg.data \in TableCuts)
       => LoadRejected]_vars

\* the container was cut inside the name of its first entry
C14_Witness ==
    /\ LoadOf(Truncated(13))
    /\ ret.logged
    /\ Staging.exists
    /\ Staging.files # {}

\* C15: load_from_gscore on TwoFiles cut inside its payloads, so that an
\* entry's range reaches past the end of the buffer, fails like any other
\* malformed container: nothing is staged.
C15_PayloadPastEndFails ==
    [][(ret'.op = "load" /\ ret'.arg.readable /\ ret'.arg.data \in PayloadCuts)
       => LoadRejected]_vars

\* C16: when the entry table of TwoFiles breaks off in its second entry the
\* first entry is not written and the staging directory of before is kept;
\* when the table is sound an entry that cannot be written is skipped, and
\* the entries after it are written and the modules among them loaded.
C16_AllOrNothingAtParse ==
    [][/\ (ret'.op = "load" /\ ret'.arg.readable /\ ret'.arg.data \in SecondEntryCuts)
             => LoadRejected
       /\ (ret'.op = "load" /\ ret'.arg = File(BundleMixed)) =>
             /\ temp_dir' # 0
             /\ tmpfs'[temp_dir'].files =
                   {[name |-> <<97>>, data |-> <<7>>],
                    [name |-> NameBytes("gscx_bootloader.dll"), data |-> Image(15)]}
             /\ Len(loaded') = Len(loaded) + 1
             /\ loaded'[Len(loaded')].name = "gscx_bootloader.dll"
             /\ ret'.calls = <<[entry |-> "GSCX_Initialize", out |-> "true"]>>
       /\ \A pk \in PackedLists :
             (/\ ret'.op = "load"
              /\ ret'.arg = File(pk.data)
              /\ Len(pk.items) = 2
              /\ pk.items[1].name = <<97, 47>>
              /\ pk.items[2].name = <<97, 47, 98>>)
             => tmpfs'[temp_dir'].files =
                   {[name |-> <<97, 47, 98>>, data |-> pk.items[2].data]}]_vars

\* the second entry could not be written, the module after it was loaded
C16_Witness ==
    /\ LoadOf(BundleMixed)
    /\ ret.logged
    /\ loaded # <<>>
    /\ loaded[Len(loaded)].name = "gscx_bootloader.dll"
    /\ Cardinality(Staging.files) = 2

\* every staged file and directory comes from an entry of items
StagedFrom(T, items) ==
    /\ \A f \in T.files :
          \E i \in DOMAIN items :
              f.name = Join(Steps(items[i].name)) /\ f.data = items[i].data
    /\ \A d \in T.dirs :
          \E i \in DOMAIN items : d \in Ancestors(Steps(dirname(items[i].name)))

BatchKinds(gpu, cpu) == <<[name |-> "gscx_cpu_cell.dll", kind |-> cpu],
                          [name |-> "gscx_gpu_rsx.dll", kind |-> gpu]>>

\* the container of every batch
BatchFile == [g \in ModuleKinds, c \in ModuleKinds |-> File(Pack(ModuleItems(g, c)))]

BatchLoaded(gpu, cpu) == ret'.op = "load" /\ ret'.arg = BatchFile[gpu, cpu]

\* the modules added to self.loaded are those of `batch`, under their names
\* and in its order
Recorded(batch) ==
    /\ Len(loaded') = Len(loaded) + Len(batch)
    /\ SubSeq(loaded', 1, Len(loaded)) = loaded
    /\ \A i \in DOMAIN batch : loaded'[Len(loaded) + i].name = batch[i].name

\* C18: a module file fails to load when ctypes.WinDLL or its initializer
\* raises OSError. In a batch of two files, whatever becomes of one, the
\* other is attempted (its GSCX_Initialize is called if it has one), and
\* every file that loads is recorded; the batch is logged.
C18_FailedModuleSkipped ==
    [][\A g \in ModuleKinds, c \in ModuleKinds :
          BatchLoaded(g, c) =>
              /\ ret'.logged
              /\ Recorded(SelectSeq(BatchKinds(g, c),
                                    LAMBDA m : m.kind \notin {"broken", "raise"}))
              /\ Len(ret'.calls) =
                    Len(SelectSeq(BatchKinds(g, c),
                                  LAMBDA m : m.kind \notin {"broken", "noinit"}))
              /\ \A i \in DOMAIN ret'.calls : ret'.calls[i].entry = "GSCX_Initialize"]_vars

\* the first file of the batch was no library, the second was loaded
C18_Witness ==
    /\ LoadOf(Pack(ModuleItems("true", "broken")))
    /\ ret.logged
    /\ loaded # <<>>
    /\ loaded[Len(loaded)].name = "gscx_gpu_rsx.dll"
    /\ ret.calls = <<[entry |-> "GSCX_Initialize", out |-> "true"]>>
    /\ \E f \in Staging.files : f.name = NameBytes("gscx_cpu_cell.dll")

\* C19: every module file that ctypes.WinDLL loads is recorded, whether its
\* initializer is absent, returns true, returns false or raises.
C19_RecordedWhateverInit ==
    [][\A g \in ModuleKinds, c \in ModuleKinds :
          BatchLoaded(g, c) =>
              Recorded(SelectSeq(BatchKinds(g, c), LAMBDA m : m.kind # "broken"))]_vars

\* the calls of GSCX_Shutdown that unload_all owes to the modules `mods`
Shutdowns(mods) ==
    LET has == SelectSeq(mods, LAMBDA m : "Shutdown" \in m.exports)
    IN  [i \in DOMAIN has |-> [entry |-> "GSCX_Shutdown", out |-> DllShutdown(has[i].lib)]]

ReachedEntryStep(r) ==
    /\ r.op = "boot_recovery"
    /\ ~(r.arg.pup.given /\ ~r.arg.pup.exists)

RecoveryCalls == {i \in DOMAIN ret.calls : ret.calls[i].entry = "GSCX_RecoveryEntry"}

\* C21: a boot_recovery call that reaches the recovery entry step ends with
\* GSCX_RECOVERY_PUP unset, whether the entry point returned or threw and
\* whether or not a recovery module was loaded; and no step other than a
\* write by someone else takes the variable from unset to set, so that
\* without such a writer it is unset in every state outside a call.
C21_BindingClearedAfterCall ==
    [][/\ ReachedEntryStep(ret') => environ' = Unset
       /\ ret'.op # "setenv" /\ environ = Unset => environ' = Unset]_vars

\* a firmware file was given, the entry point saw the binding and threw, and
\* the binding is gone
C21_Witness ==
    /\ ReachedEntryStep(ret)
    /\ ret.arg.pup.given
    /\ ret.result = "raise"
    /\ \E i \in RecoveryCalls : ret.calls[i].out = "raise" /\ ret.calls[i].environ # Unset
    /\ environ = Unset

\* the destination of the copy of a boot_recovery call that was given a
\* firmware path: the caller's directory or the temporary one of the call
TargetDir == IF ret.arg.usb_dir THEN UsbDir ELSE vusb_dir

\* PS3UPDAT.PUP in the target directory holds the bytes of the firmware file
Copied ==
    LET T == IF TargetDir = UsbDir THEN usb ELSE tmpfs[TargetDir]
    IN  T.exists /\ [name |-> PupName, data |-> ret.arg.pup.data] \in T.files

\* C22: when boot_recovery invokes the native recovery entry point,
\* GSCX_RECOVERY_PUP is the path of the copy PS3UPDAT.PUP in the target
\* directory if a firmware path was given, and is unset if none was given,
\* whatever it was bound to before the call.
C22_BindingAtEntry ==
    ret.op = "boot_recovery" =>
        \A i \in RecoveryCalls :
            IF ret.arg.pup.given
            THEN /\ ret.calls[i].environ = [dir |-> TargetDir, name |-> PupName]
                 /\ Copied
            ELSE ret.calls[i].environ = Unset

\* the variable was bound before a call without a firmware path, and the
\* entry point ran with it unset
C22_Witness ==
    /\ ret.op = "boot_recovery"
    /\ ~ret.arg.pup.given
    /\ ret.arg.environ # Unset
    /\ \E i \in RecoveryCalls : ret.calls[i].environ = Unset

\* the operations of the flash controller and the boot orchestrator
FlashAndBootOps == {"initialize", "mount", "format", "clean", "clean_all", "info", "boot"}

\* C23: no operation of the flash controller or of the boot orchestrator lets
\* an exception escape to its caller: a failure is logged and turned into a
\* false or error return value.
C23_NoExceptionEscapes ==
    ret.op \in FlashAndBootOps => ret.result # "raise"

\* the operations that report failure by returning False
BooleanOps == {"boot", "validate", "verify", "mount", "clean", "clean_all"}

\* C24: a loader operation that returns False has sent at least one line to
\* the log sink in the same call.
C24_FalseIsLogged ==
    ret.op \in BooleanOps /\ ret.result = "false" => ret.logged

\* the entries directly under base whose deletion did not complete in the
\* last call of format_virtual_flash
NotDeleted == {d \in ret.arg.stuck : ret.arg.before.exists /\ ret.arg.before.dirs[d].exists}

\* C25: format_virtual_flash reports failure to its caller when the deletion
\* of at least one entry directly under base could not complete.
C25_FormatReportsStuckEntry ==
    ret.op = "format" /\ NotDeleted # {} => ret.result = "raise"

\* the stubs of the ROS slots: which exist and how long they are
RosStubs(v) ==
    [slot \in Range(ros_slots) |->
        IF v.exists /\ v.dirs[slot].exists
        THEN {f \in v.dirs[slot].files : f.name \in StubFiles}
        ELSE {}]

\* C26: with a layout recorded, initialize_virtual_flash does not touch the
\* disk: lv0.self and appldr.self of each ROS slot are after the call as
\* they were before it.
C26_InitializeKeepsStubs ==
    [][/\ vflash_info # NoInfo
       /\ ret'.op = "initialize"
       => RosStubs(vf') = RosStubs(vf)]_vars

\* the first loaded module of a catalog name, 0 if there is none, and whether
\* the entry point of its stage resolves
FirstModule(prefix) == FirstLoaded([loaded |-> loaded], prefix)

Resolves(prefix) == FirstModule(prefix) # 0 /\ "Stage" \in loaded[FirstModule(prefix)].exports

\* the one call of `entry` in the last operation, with the result of the argument
CalledOnce(entry) == ret.calls = <<[entry |-> entry, out |-> ret.arg]>>

\* C27: initialize_syscon returns true without a native call when no system
\* controller module is loaded; with one loaded (the first of them) it
\* returns what the initializer returned, and false without a native call
\* when the module has no such entry point.
C27_SysconResult ==
    ret.op = "initialize_syscon" =>
        IF FirstModule("gscx_syscon") = 0
        THEN ret.result = "true" /\ ret.calls = <<>>
        ELSE IF ~Resolves("gscx_syscon")
        THEN ret.result = "false" /\ ret.calls = <<>>
        ELSE /\ CalledOnce("GSCX_SYSCON_Initialize")
             /\ ret.arg \in {"true", "false"} => ret.result = ret.arg

\* a system controller without the entry point is loaded and the stage failed
C27_Witness ==
    /\ ret.op = "initialize_syscon"
    /\ FirstModule("gscx_syscon") # 0
    /\ ~Resolves("gscx_syscon")
    /\ ret.result = "false"

\* the result of a stage that needs the entry point of the module `prefix`
StageResult(prefix, entry) ==
    /\ ret.result = "true" <=> Resolves(prefix) /\ ret.arg = "true"
    /\ ret.result \in {"true", "false"}
    /\ IF Resolves(prefix) THEN CalledOnce(entry) ELSE ret.calls = <<>>

\* C28: boot_lv0_stage returns true iff a bootloader module is loaded, its
\* LV0 entry point resolves and returns true, boot_lv1_stage likewise for
\* the hypervisor and its LV1 entry point; without the module or the entry
\* point the stage returns false, and the entry point is called at most once.
C28_NativeStageResult ==
    /\ ret.op = "boot_lv0_stage" => StageResult("gscx_bootloader", "GSCX_LV0_Entry")
    /\ ret.op = "boot_lv1_stage" => StageResult("gscx_hypervisor", "GSCX_LV1_Entry")

\* the hypervisor is loaded without its entry point and LV1 failed with no call
C28_Witness ==
    /\ ret.op = "boot_lv1_stage"
    /\ FirstModule("gscx_hypervisor") # 0
    /\ ~Resolves("gscx_hypervisor")
    /\ ret.arg = "true"
    /\ ret.result = "false"
    /\ ret.calls = <<>>

HasModule(q, prefix) == \E i \in DOMAIN q : StartsWith(q[i].name, prefix)

\* C29: boot_lv2_stage returns true iff a CPU module and a GPU module are
\* both loaded; it calls no native entry point and leaves the loaded
\* collection as it was.
C29_Lv2IffCpuAndGpu ==
    [][ret'.op = "boot_lv2_stage" =>
           /\ ret'.result = "true" <=>
                  HasModule(loaded, "gscx_cpu_cell") /\ HasModule(loaded, "gscx_gpu_rsx")
           /\ ret'.result \in {"true", "false"}
           /\ ret'.calls = <<>>
           /\ loaded' = loaded]_vars

\* the CPU module is loaded, the GPU module is not, and LV2 failed
C29_Witness ==
    /\ ret.op = "boot_lv2_stage"
    /\ HasModule(loaded, "gscx_cpu_cell")
    /\ ~HasModule(loaded, "gscx_gpu_rsx")
    /\ ret.result = "false"

\* the threads inside an operation of the loader, and inside native code
InLoader == {t \in Threads : pc[t].op \in LoaderOps}

InNative == {t \in Threads : pc[t].at = "native"}

\* C30: two operations on the loader never overlap: while the recovery
\* thread runs load_default_modules or boot_recovery no other thread is
\* inside an operation of the loader, and at most one thread is inside a
\* native entry point.
C30_OperationsNeverOverlap ==
    /\ Cardinality(InLoader) <= 1
    /\ Cardinality(InNative) <= 1

\* in the last call the entry point was called at most once, on the first
\* loaded recovery module, and not at all when that module or its entry
\* point is missing
EntryOnFirstModule ==
    /\ Cardinality(RecoveryCalls) <= 1
    /\ \A i \in RecoveryCalls : /\ Resolves("gscx_recovery")
                                 /\ ret.calls[i].index = FirstModule("gscx_recovery")
    /\ ~Resolves("gscx_recovery") => RecoveryCalls = {}

RecordOf(dll, f) == [name |-> dll, exports |-> DllExports(f.data), lib |-> f.data]

LoadsWell(f) ==
    DllLoads(f.data) /\ ("Initialize" \in DllExports(f.data) => DllInit(f.data) # "raise")

\* the files of directory D that load, in catalog order
LoadedFrom(D) ==
    LET hit(i) == {f \in D.files : f.name = NameBytes(dll_names[i]) /\ LoadsWell(f)}
        idx == SelectSeq([i \in DOMAIN dll_names |-> i], LAMBDA i : hit(i) # {})
    IN  [j \in DOMAIN idx |-> RecordOf(dll_names[idx[j]], CHOOSE f \in hit(idx[j]) : TRUE)]

RECURSIVE LoadedFromAll(_)
LoadedFromAll(cands) ==
    IF cands = <<>> THEN <<>>
    ELSE (IF Head(cands).exists THEN LoadedFrom(Head(cands)) ELSE <<>>)
         \o LoadedFromAll(Tail(cands))

\* C32: _load_from_dirs records the files that load in search order, the
\* directories in their order and within a directory the catalog order,
\* after the records already present.
C32_RecordedInSearchOrder ==
    [][ret'.op = "load_default_modules" =>
           loaded' = loaded \o LoadedFromAll(ret'.arg)]_vars

\* two directories were searched after modules were already loaded, and the
\* second directory's GPU module stands after the first directory's CPU module
C32_Witness ==
    /\ ret.op = "load_default_modules"
    /\ ret.arg = <<DirB, DirA, NoTmp>>
    /\ Len(loaded) = 4
    /\ loaded[2].name = "gscx_gpu_rsx.dll" /\ loaded[2].lib = <<77, 90, 13, 1>>
    /\ loaded[3].name = "gscx_cpu_cell.dll"
    /\ loaded[4].name = "gscx_gpu_rsx.dll"

\* C33: the loaded collection holds at most one record per module name.
C33_OneRecordPerName ==
    \A i, j \in DOMAIN loaded : loaded[i].name = loaded[j].name => i = j

\* C34: after validate_boot_chain returns, true or false, the active-ROS
\* marker is unset or names a slot whose lv0.self and appldr.self both exist
\* with a size above zero.
C34_ActiveSlotVerified ==
    ret.op = "validate" => active_ros = "none" \/ SlotIntact(active_ros)

\* C40: every name that get_vflash_info reports in ros_slots is the name of
\* a subdirectory of the layout, and select_ros_slot given that name as the
\* preference tries that slot first: with both slots valid it selects it.
C40_ReportedSlotIsPreference ==
    /\ vflash_info # NoInfo =>
           \A i \in DOMAIN vflash_info.ros_slots : vflash_info.ros_slots[i] \in SubDirs
    /\ ( /\ ret.op = "select"
         /\ ret.arg \in Range(vflash_info.ros_slots)
         /\ \A slot \in Range(ros_slots) : StubOk(slot, "lv0.self") )
       => upper(ret.result) = ret.arg

C37_BindingStableDuringEntry ==
    [][\A t \in Threads :
          (pc[t] = [op |-> "boot_recovery", at |-> "native"] /\ pc'[t] = pc[t])
              => environ' = environ]_vars

\* C36: a log line that a native module emits through the HostServicesTable
\* is delivered to the on_log of the loader instance that loaded the module,
\* also when more than one ModulesLoader has been constructed.  The modules
\* of `loaded` were loaded by the instance of the shell.
C36_NativeLogToOwnSink ==
    ret.op = "native_log" => ret.arg.sink = "shell"

\* C38: a cancellation is not lost: once cancel() was called while a call
\* of run is executing, check_cancel() returns true for the rest of that
\* call, whatever other calls of run on the same engine do.
C38_CancelNotLost ==
    \A r \in Runners : runs[r].at = "exec" /\ runs[r].cancelled => check_cancel

\* C39: when every call of ScriptingEngine.run has returned, the working
\* directory of the process is the one it was before the first of them
\* started.
C39_CwdRestored ==
    (\A r \in Runners : ~Running(r)) => cwd = "home"

====
